---- MODULE Spec2Model ----
(***************************************************************************)
(* Blind Draw Tourney: the scheduling / seeding core of src/src/App.tsx    *)
(* (first build in that file), with the variant builds of the same         *)
(* functions (second build in App.tsx, unnamed/part_000) modelled where    *)
(* they differ.                                                            *)
(*                                                                         *)
(* Texts (score texts) are sequences of one-character strings; the         *)
(* en dash U+2013 is written "ndash".  Player names are strings; slug()    *)
(* is the table SlugTable.  An optional field that is undefined holds the  *)
(* sentinel of its type (NoTeam, NoId, "none", UndefScore).                *)
(***************************************************************************)
EXTENDS Integers, Sequences, FiniteSets, TLC

VARIABLES
    guys,        \* RoundGenerator.guys: the parsed guys roster (list of names)
    girls,       \* RoundGenerator.girls: the parsed girls roster
    matches,     \* App state `matches`: MatchRow[]
    brackets,    \* App state `brackets`: BracketMatch[]
    tieAdjust,   \* App state `tieAdjust`: name -> manual tiebreak (where supported)
    call,        \* the last operation applied and its arguments
    out          \* what the last operation computed besides the new state

vars == <<guys, girls, matches, brackets, tieAdjust, call, out>>

(***************************************************************************)
(* Generic sequence helpers                                                *)
(***************************************************************************)
Range(s) == { s[i] : i \in 1..Len(s) }

Min2(a, b) == IF a <= b THEN a ELSE b

Max2(a, b) == IF a >= b THEN a ELSE b

Abs(a) == IF a < 0 THEN -a ELSE a

\* the element of a one-element set; Only({ e(v) : v \in {x} }) is e(x) with x
\* computed once
Only(S) == CHOOSE r \in S : TRUE

(***************************************************************************)
(* Texts                                                                   *)
(***************************************************************************)
Digits == {"0", "1", "2", "3", "4", "5", "6", "7", "8", "9"}

DigitVal(c) ==
    CASE c = "0" -> 0 [] c = "1" -> 1 [] c = "2" -> 2 [] c = "3" -> 3
      [] c = "4" -> 4 [] c = "5" -> 5 [] c = "6" -> 6 [] c = "7" -> 7
      [] c = "8" -> 8 [] c = "9" -> 9

UndefScore == <<"undefined">>

\* JavaScript falsiness of an optional string: undefined or ''
Falsy(s) == s = UndefScore \/ s = <<>>

RECURSIVE TrimLeft(_)
TrimLeft(s) ==
    IF s # <<>> /\ Head(s) = " " THEN TrimLeft(Tail(s)) ELSE s

RECURSIVE TrimRight(_)
TrimRight(s) ==
    IF s # <<>> /\ s[Len(s)] = " " THEN TrimRight(SubSeq(s, 1, Len(s) - 1)) ELSE s

Trim(s) == TrimRight(TrimLeft(s))

\* length of the longest prefix of s made of digits
RECURSIVE DigitPrefixLen(_)
DigitPrefixLen(s) ==
    IF s # <<>> /\ Head(s) \in Digits THEN 1 + DigitPrefixLen(Tail(s)) ELSE 0

\* value of a sequence of digits, base 10
RECURSIVE DigitsValue(_)
DigitsValue(s) ==
    IF s = <<>> THEN 0
    ELSE 10 * DigitsValue(SubSeq(s, 1, Len(s) - 1)) + DigitVal(s[Len(s)])

Drop(s, n) == SubSeq(s, n + 1, Len(s))

NoParse == <<>>

\* parseScore: /^(\d+)\s*[-ndash]\s*(\d+)$/ on the trimmed text
parseScore(text) ==
    IF Falsy(text) THEN NoParse
    ELSE
      LET t  == Trim(text)
          n1 == DigitPrefixLen(t)
          r1 == TrimLeft(Drop(t, n1))
          r2 == IF r1 = <<>> THEN <<>> ELSE TrimLeft(Tail(r1))
          n2 == DigitPrefixLen(r2)
      IN IF /\ n1 >= 1
            /\ r1 # <<>>
            /\ Head(r1) \in {"-", "ndash"}
            /\ n2 >= 1
            /\ n2 = Len(r2)
         THEN <<DigitsValue(SubSeq(t, 1, n1)), DigitsValue(r2)>>
         ELSE NoParse

\* mutation: the win-by-2 condition dropped
isValidPoolScore_NoWinBy2(a, b) ==
    Max2(a, b) >= 21

isValidPoolScore(a, b) ==
    LET diff == Abs(a - b)
        max  == Max2(a, b)
    IN max >= 21 /\ diff >= 2

\* String.prototype.split on a one-character separator
RECURSIVE Split(_, _)
Split(s, sep) ==
    IF \A i \in 1..Len(s) : s[i] # sep THEN <<s>>
    ELSE LET k == CHOOSE i \in 1..Len(s) :
                    s[i] = sep /\ \A j \in 1..(i - 1) : s[j] # sep
         IN <<SubSeq(s, 1, k - 1)>> \o Split(Drop(s, k), sep)

\* parseInt(p, 10): <<value>>, or <<>> for NaN
parseInt(p) ==
    LET t    == TrimLeft(p)
        neg  == t # <<>> /\ Head(t) = "-"
        body == IF neg THEN Tail(t) ELSE t
        n    == DigitPrefixLen(body)
        v    == DigitsValue(SubSeq(body, 1, n))
    IN IF n = 0 THEN <<>> ELSE <<IF neg THEN -v ELSE v>>

\* BracketView.parseScoreLoose and PlayoffBuilder.parseScoreLooseForRR
parseScoreLoose(s) ==
    IF Falsy(s) THEN NoParse
    ELSE
      LET txt   == Trim(s)
          sep   == IF \E i \in 1..Len(txt) : txt[i] = "ndash" THEN "ndash" ELSE "-"
          parts == Split(txt, sep)
      IN IF Len(parts) # 2 THEN NoParse
         ELSE LET a == parseInt(Trim(parts[1]))
                  b == parseInt(Trim(parts[2]))
              IN IF a # <<>> /\ b # <<>> THEN <<a[1], b[1]>> ELSE NoParse

(***************************************************************************)
(* Teams and bracket matches                                               *)
(***************************************************************************)
\* Team.id is `${division}-${seed}-${slug(name)}` (or `RR-carry-${seed}`): a
\* function of the fields kept here.
NoTeam == [name |-> "", members |-> <<"", "">>, seed |-> 0, division |-> "none"]

\* BracketMatch.id `${division}-R${round}-${slot}` is the triple <<division, round, slot>>
NoId == <<"none", 0, 0>>

MatchId(division, round, slot) == <<division, round, slot>>

UPPER_COURTS == <<1, 2, 3, 4, 5>>

LOWER_COURTS == <<6, 7, 8, 9, 10>>

\* courtFor with the Redemption Rally sharing the upper pool
courtFor_RRUpper(division, round, slot) ==
    LET pool == IF division = "LOWER" THEN LOWER_COURTS ELSE UPPER_COURTS
    IN pool[((slot - 1) % Len(pool)) + 1]

courtFor(division, round, slot) ==
    LET pool == IF division = "UPPER" THEN UPPER_COURTS ELSE LOWER_COURTS
    IN pool[((slot - 1) % Len(pool)) + 1]

\* A freshly constructed BracketMatch; team1SourceId / team2SourceId / redemption
\* are display-only and not kept.
NewMatch(division, round, slot, t1, t2) ==
    [ id            |-> MatchId(division, round, slot),
      division      |-> division,
      round         |-> round,
      slot          |-> slot,
      team1         |-> t1,
      team2         |-> t2,
      score         |-> UndefScore,
      nextId        |-> NoId,
      nextSide      |-> "none",
      court         |-> courtFor(division, round, slot),
      loserNextId   |-> NoId,
      loserNextSide |-> "none" ]

BYE == <<"B", "Y", "E">>

\* new Map(list.map(m => [m.id, m])).get(id): the last entry with that id, 0 if none
IndexOfId(list, id) ==
    LET hits == { i \in 1..Len(list) : list[i].id = id }
    IN IF hits = {} THEN 0 ELSE CHOOSE i \in hits : \A j \in hits : j <= i

\* list.find(x => x.id === id): the first entry with that id, 0 if none
FindId(list, id) ==
    LET hits == { i \in 1..Len(list) : list[i].id = id }
    IN IF hits = {} THEN 0 ELSE CHOOSE i \in hits : \A j \in hits : i <= j

(***************************************************************************)
(* buildBracket (App.tsx, first build)                                     *)
(***************************************************************************)
RECURSIVE Pow2From(_, _)
Pow2From(p, n) == IF p < n THEN Pow2From(2 * p, n) ELSE p

nextPow2(n) == Pow2From(1, n)

\* mutation: the opponents taken as n - a and n - b
RECURSIVE EspnPairs_OffByOne(_, _, _)
EspnPairs_OffByOne(prev, i, n) ==
    IF i > Len(prev) THEN <<>>
    ELSE LET a == prev[i]
             b == IF i + 1 <= Len(prev) THEN prev[i + 1] ELSE n \div 2
         IN <<a, n - a, b, n - b>> \o EspnPairs_OffByOne(prev, i + 2, n)

\* the body of espnOrder's loop: a, n+1-a, b, n+1-b for i = 0, 2, 4, ...
RECURSIVE EspnPairs(_, _, _)
EspnPairs(prev, i, n) ==
    IF i > Len(prev) THEN <<>>
    ELSE LET a == prev[i]
             b == IF i + 1 <= Len(prev) THEN prev[i + 1] ELSE n \div 2
         IN <<a, n + 1 - a, b, n + 1 - b>> \o EspnPairs(prev, i + 2, n)

RECURSIVE espnOrder(_)
espnOrder(n) ==
    IF n = 1 THEN <<1>>
    ELSE IF n = 2 THEN <<1, 2>>
    ELSE EspnPairs(espnOrder(n \div 2), 1, n)

\* slots[idxBySeed.get(t.seed)] = t over the teams sorted by seed (stable): the
\* slot of seed s ends holding the last team carrying that seed
TeamAtSeed(teams, s) ==
    LET hits == { k \in 1..Len(teams) : teams[k].seed = s }
    IN IF hits = {} THEN NoTeam
       ELSE teams[CHOOSE k \in hits : \A j \in hits : j <= k]

SlotsOf(teams, order) == [i \in 1..Len(order) |-> TeamAtSeed(teams, order[i])]

gapByes(size, N) == Max2(0, size - N)

wantByes(size, N, topSeedByeCount) ==
    Min2(Min2(Max2(gapByes(size, N), topSeedByeCount), 5), size)

byeSeeds(size, N, topSeedByeCount) == 1..wantByes(size, N, topSeedByeCount)

\* round 1: for (i = 0; i < size; i += 2) team1 = slots[i], team2 = slots[i+1]
RoundOne(division, slots, size) ==
    [k \in 1..((size + 1) \div 2) |->
        NewMatch(division, 1, k, slots[2 * k - 1],
                 IF 2 * k <= size THEN slots[2 * k] ELSE NoTeam)]

\* while (current.length > 1): the parents of `current`, the forward pointers
\* written into `current`, round after round
RECURSIVE ParentRounds(_, _, _)
ParentRounds(division, current, round) ==
    IF Len(current) <= 1 THEN current
    ELSE LET r      == round + 1
             next   == [k \in 1..((Len(current) + 1) \div 2) |->
                           NewMatch(division, r, k, NoTeam, NoTeam)]
             linked == [i \in 1..Len(current) |->
                           [current[i] EXCEPT
                              !.nextId   = MatchId(division, r, (i + 1) \div 2),
                              !.nextSide = IF i % 2 = 1 THEN "team1" ELSE "team2"]]
         IN linked \o ParentRounds(division, next, r)

advanceWinner(ms, m, team) ==
    IF team = NoTeam \/ m.nextId = NoId \/ m.nextSide = "none" THEN ms
    ELSE LET p == IndexOfId(ms, m.nextId)
         IN IF p = 0 THEN ms
            ELSE IF m.nextSide = "team1" THEN [ms EXCEPT ![p].team1 = team]
            ELSE [ms EXCEPT ![p].team2 = team]

\* "Auto-advance pure BYE for top seeds in R1"
RECURSIVE AutoAdvance(_, _, _)
AutoAdvance(ms, i, byes) ==
    IF i > Len(ms) THEN ms
    ELSE LET m  == ms[i]
             t1 == m.team1
             t2 == m.team2
             s1 == IF m.round = 1 /\ t1 # NoTeam /\ t2 = NoTeam /\ t1.seed \in byes
                   THEN advanceWinner(ms, m, t1) ELSE ms
             s2 == IF m.round = 1 /\ t2 # NoTeam /\ t1 = NoTeam /\ t2.seed \in byes
                   THEN advanceWinner(s1, m, t2) ELSE s1
         IN AutoAdvance(s2, i + 1, byes)

\* "Mark pure BYE leaves as hidden (score BYE)"
MarkByes(ms) ==
    [i \in 1..Len(ms) |->
        LET m       == ms[i]
            onlyOne == (m.team1 # NoTeam /\ m.team2 = NoTeam)
                         \/ (m.team1 = NoTeam /\ m.team2 # NoTeam)
        IN IF m.round = 1 /\ onlyOne
           THEN [m EXCEPT !.score = BYE, !.team1 = NoTeam, !.team2 = NoTeam]
           ELSE m]

buildBracket(division, teams, topSeedByeCount) ==
    LET N == Len(teams)
    IN IF N = 0 THEN <<>>
       ELSE LET size  == nextPow2(N)
                order == espnOrder(size)
                slots == SlotsOf(teams, order)
                built == ParentRounds(division, RoundOne(division, slots, size), 1)
            IN MarkByes(AutoAdvance(built, 1, byeSeeds(size, N, topSeedByeCount)))

(***************************************************************************)
(* buildBracket of the tie-adjust build: "only real games in R1"            *)
(***************************************************************************)
\* how a call ends: returned, or the engine's RangeError on call stack exhaustion
Returned == "returned"

RangeError == "RangeError"

\* espnOrder(n) with half = n / 2 (no rounding): the recursion stops only at
\* n = 1 and n = 2; an odd n above 2 halves to a fraction, and halving a
\* fraction (or 0) never gives 1 or 2, so the recursion has no end
RECURSIVE EspnPush3(_, _, _)
EspnPush3(prev, i, n) ==
    IF i > Len(prev) THEN <<>>
    ELSE <<prev[i], n + 1 - prev[i]>> \o EspnPush3(prev, i + 1, n)

RECURSIVE espnOrder3(_)
espnOrder3(n) ==
    IF n = 1 THEN [ended |-> Returned, order |-> <<1>>]
    ELSE IF n = 2 THEN [ended |-> Returned, order |-> <<1, 2>>]
    ELSE IF n % 2 # 0 \/ n <= 0 THEN [ended |-> RangeError, order |-> <<>>]
    ELSE LET prev == espnOrder3(n \div 2)
         IN IF prev.ended # Returned THEN prev
            ELSE LET pairs == EspnPush3(prev.order, 1, n)
                 IN [ended |-> Returned, order |-> SubSeq(pairs, 1, Min2(n, Len(pairs)))]

\* numByes = max(0, min(topSeedByeCount, nextPow2(N) - N)); size = N + numByes || 1
numByes3(N, topSeedByeCount) == Max2(0, Min2(topSeedByeCount, nextPow2(N) - N))

size3(N, topSeedByeCount) ==
    IF N + numByes3(N, topSeedByeCount) = 0 THEN 1 ELSE N + numByes3(N, topSeedByeCount)

\* slots[pos] = team for s = 1..N with pos = idxBySeed.get(s) and team =
\* bySeed.get(s) (the seeds of a team list are distinct); other slots undefined
SlotsOf3(teams, order, size) ==
    [i \in 1..size |->
        IF i <= Len(order) /\ order[i] \in 1..Len(teams)
        THEN TeamAtSeed(teams, order[i]) ELSE NoTeam]

\* Entry = Team | {matchId}
TeamEntry(t) == [matchId |-> NoId, team |-> t]

MatchEntry(id) == [matchId |-> id, team |-> NoTeam]

\* "Round 1: only real games (2 real teams)": the loop from pair k on
RECURSIVE RoundOne3(_, _, _, _, _, _)
RoundOne3(division, slots, size, k, made, entries) ==
    IF 2 * k - 1 > size THEN [matches |-> made, entries |-> entries]
    ELSE LET t1 == slots[2 * k - 1]
             t2 == IF 2 * k <= size THEN slots[2 * k] ELSE NoTeam
             slotCounter == Len(made) + 1
             adv == IF t1 # NoTeam THEN t1 ELSE t2
         IN Only({ RoundOne3(division, slots, size, k + 1, acc[1], acc[2]) :
                   acc \in { IF t1 # NoTeam /\ t2 # NoTeam
                             THEN <<Append(made, NewMatch(division, 1, slotCounter, t1, t2)),
                                    Append(entries, MatchEntry(MatchId(division, 1, slotCounter)))>>
                             ELSE IF adv # NoTeam
                             THEN <<made, Append(entries, TeamEntry(adv))>>
                             ELSE <<made, entries>> } })

\* child.nextId = id; child.nextSide = side, for the child an entry names
LinkChild3(ms, entry, id, side) ==
    LET c == IF entry.matchId = NoId THEN 0 ELSE IndexOfId(ms, entry.matchId)
    IN IF c = 0 THEN ms ELSE [ms EXCEPT ![c].nextId = id, ![c].nextSide = side]

\* one pass of the inner for loop of "Later rounds": the parents of `current`
\* from pair k on; `made` counts the parents of this round pushed so far
RECURSIVE PairEntries3(_, _, _, _, _, _, _)
PairEntries3(division, round, current, k, ms, made, entries) ==
    IF 2 * k - 1 > Len(current) THEN [matches |-> ms, entries |-> entries]
    ELSE LET left   == current[2 * k - 1]
             right  == IF 2 * k <= Len(current) THEN current[2 * k]
                       ELSE TeamEntry(NoTeam)
             slotCounter == made + 1
             id     == MatchId(division, round, slotCounter)
             parent == NewMatch(division, round, slotCounter, left.team, right.team)
             linked == LinkChild3(LinkChild3(ms, left, id, "team1"), right, id, "team2")
         IN Only({ PairEntries3(division, round, current, k + 1, acc[1], made + 1, acc[2]) :
                   acc \in { <<Append(linked, parent), Append(entries, MatchEntry(id))>> } })

\* while (nextEntries.length > 1) { round++; ... }
RECURSIVE LaterRounds3(_, _, _, _)
LaterRounds3(division, ms, entries, round) ==
    IF Len(entries) <= 1 THEN ms
    ELSE Only({ LaterRounds3(division, r.matches, r.entries, round + 1) :
                r \in { PairEntries3(division, round + 1, entries, 1, ms, 0, <<>>) } })

\* the whole call: how it ended and, when it returned, the matches
buildBracket3(division, teams, topSeedByeCount) ==
    LET N == Len(teams)
    IN IF N = 0 THEN [ended |-> Returned, matches |-> <<>>]
       ELSE LET size == size3(N, topSeedByeCount)
                eo   == espnOrder3(size)
            IN IF eo.ended # Returned THEN [ended |-> eo.ended, matches |-> <<>>]
               ELSE LET r1 == RoundOne3(division, SlotsOf3(teams, eo.order, size),
                                        size, 1, <<>>, <<>>)
                    IN [ended |-> Returned,
                        matches |-> LaterRounds3(division, r1.matches, r1.entries, 1)]

(***************************************************************************)
(* Bounds                                                                  *)
(***************************************************************************)
\* team counts handed to buildBracket on its own (bracket sizes 1 .. 32)
MaxTeams == 17

\* requestedByes ranges over 0 .. MaxByeRequest
MaxByeRequest == 5

Divisions == {"UPPER", "LOWER", "RR"}

(***************************************************************************)
(* SpecBuild: buildBracket applied to N teams seeded 1..N                  *)
(***************************************************************************)
NoCall == [op |-> "init"]

NoOut == [op |-> "init"]

\* a division's team list as PlayoffBuilder.build returns it: seeds 1..N in order
SeededTeams(division, N) ==
    [s \in 1..N |->
        [ name     |-> "g" \o ToString(s) \o " & " \o "h" \o ToString(s),
          members  |-> <<"g" \o ToString(s), "h" \o ToString(s)>>,
          seed     |-> s,
          division |-> division ]]

InitBuild ==
    /\ guys = <<>>
    /\ girls = <<>>
    /\ matches = <<>>
    /\ brackets = <<>>
    /\ tieAdjust = <<>>
    /\ call = NoCall
    /\ out = NoOut

\* one call of buildBracket(division, teams, topSeedByeCount); `out` keeps the
\* locals size, order and slots of that call
BuildBracket(division, N, byes) ==
    LET teams == SeededTeams(division, N)
        size  == nextPow2(N)
        order == espnOrder(size)
    IN /\ brackets' = buildBracket(division, teams, byes)
       /\ call' = [op |-> "buildBracket", division |-> division,
                   teams |-> teams, byes |-> byes]
       /\ out' = IF N = 0 THEN [op |-> "buildBracket", size |-> 0,
                                order |-> <<>>, slots |-> <<>>]
                 ELSE [op |-> "buildBracket", size |-> size, order |-> order,
                       slots |-> SlotsOf(teams, order)]
       /\ UNCHANGED <<guys, girls, matches, tieAdjust>>

NextBuild ==
    \E division \in Divisions, N \in 0..MaxTeams, byes \in 0..MaxByeRequest :
        BuildBracket(division, N, byes)

SpecBuild == InitBuild /\ [][NextBuild]_vars

\* C16: every bracket match's court is pool[(slot-1) mod 5], the pool being
\* courts 1..5 for UPPER and courts 6..10 for LOWER and RR; so an UPPER match
\* is on a court in 1..5 and a LOWER or RR match on a court in 6..10.
C16_CourtPools ==
    \A k \in 1..Len(brackets) :
        LET m == brackets[k]
            base == IF m.division = "UPPER" THEN 0 ELSE 5
        IN /\ m.court = base + ((m.slot - 1) % 5) + 1
           /\ (m.division = "UPPER" => m.court \in 1..5)
           /\ (m.division \in {"LOWER", "RR"} => m.court \in 6..10)

\* a Redemption Rally bracket whose seventh round-1 match wraps to court 7
C16_Witness ==
    /\ call.op = "buildBracket"
    /\ call.division = "RR"
    /\ \E k \in 1..Len(brackets) :
           brackets[k].round = 1 /\ brackets[k].slot = 7 /\ brackets[k].court = 7

\* the team slots <<k, side>> of the built bracket that hold team t
SlotsHolding(t) ==
    { ks \in (1..Len(brackets)) \X {1, 2} :
        (IF ks[2] = 1 THEN brackets[ks[1]].team1 ELSE brackets[ks[1]].team2) = t }

\* a round-1 match holding one team only: nobody to play, no score to enter
StrandedIn(k) ==
    /\ brackets[k].round = 1
    /\ (brackets[k].team1 = NoTeam) # (brackets[k].team2 = NoTeam)

\* C17 as stated: after buildBracket on N >= 2 teams seeded 1..N every input
\* team is in exactly one team slot of the bracket, a round-1 slot or (after a
\* bye) a round-2 slot, and is not alone in a round-1 match; no team is lost,
\* stranded or duplicated, whatever N.
C17_AsStated ==
    (call.op = "buildBracket" /\ Len(call.teams) >= 2) =>
        \A t \in Range(call.teams) :
            /\ Cardinality(SlotsHolding(t)) = 1
            /\ \A ks \in SlotsHolding(t) :
                   brackets[ks[1]].round \in {1, 2} /\ ~StrandedIn(ks[1])

\* what the build does: the placement holds whenever the structural bye count
\* size - N is at most 5, and beyond that exactly the seeds 6 .. size - N are
\* in no slot at all
C17_LostBeyondFiveByes ==
    (call.op = "buildBracket" /\ Len(call.teams) >= 2) =>
        \A t \in Range(call.teams) :
            IF t.seed \in 6..(out.size - Len(call.teams))
            THEN SlotsHolding(t) = {}
            ELSE /\ Cardinality(SlotsHolding(t)) = 1
                 /\ \A ks \in SlotsHolding(t) :
                        brackets[ks[1]].round \in {1, 2} /\ ~StrandedIn(ks[1])

IsPow2(n) == n >= 1 /\ nextPow2(n) = n

(***************************************************************************)
(* SpecBuild3: the tie-adjust build's buildBracket on N teams seeded 1..N   *)
(***************************************************************************)
\* one call; a call that throws leaves the bracket list as it was
BuildBracket3(division, N, byes) ==
    \E r \in { buildBracket3(division, SeededTeams(division, N), byes) } :
       /\ brackets' = IF r.ended = Returned THEN r.matches ELSE brackets
       /\ call' = [op |-> "buildBracket3", division |-> division,
                   teams |-> SeededTeams(division, N), byes |-> byes]
       /\ out' = [op |-> "buildBracket3", ended |-> r.ended,
                  size |-> size3(N, byes)]
       /\ UNCHANGED <<guys, girls, matches, tieAdjust>>

NextBuild3 ==
    \E division \in Divisions, N \in 0..MaxTeams, byes \in 0..MaxByeRequest :
        BuildBracket3(division, N, byes)

SpecBuild3 == InitBuild /\ [][NextBuild3]_vars

\* the last round of the bracket list
LastRound == IF brackets = <<>> THEN 0
             ELSE CHOOSE r \in { brackets[k].round : k \in 1..Len(brackets) } :
                     \A k \in 1..Len(brackets) : brackets[k].round <= r

\* the children pointing at side `side` of match p
ChildrenOf(p, side) ==
    { k \in 1..Len(brackets) :
        brackets[k].nextId = brackets[p].id /\ brackets[k].nextSide = side }

\* C21 as stated: in every bracket buildBracket returns, a match at round r
\* below the last round and slot s points to the match of its division at
\* round r+1, slot ceil(s/2), side team1 for odd s and team2 for even s; the
\* final has no forward pointer; every (parent, side) is targeted by exactly
\* one child.
C21_AsStated ==
    /\ \A k \in 1..Len(brackets) :
          LET m == brackets[k]
          IN IF m.round < LastRound
             THEN /\ m.nextId = MatchId(m.division, m.round + 1, (m.slot + 1) \div 2)
                  /\ m.nextSide = (IF m.slot % 2 = 1 THEN "team1" ELSE "team2")
                  /\ IndexOfId(brackets, m.nextId) # 0
             ELSE m.nextId = NoId /\ m.nextSide = "none"
    /\ \A p \in 1..Len(brackets) :
          brackets[p].round > 1 =>
             \A side \in {"team1", "team2"} : Cardinality(ChildrenOf(p, side)) = 1

\* what every build keeps: a forward pointer names a match of the bracket one
\* round later, no side of a parent has two children, and only matches of the
\* last round have no pointer
C21_ForwardOnly ==
    /\ \A k \in 1..Len(brackets) :
          LET m == brackets[k]
              p == IndexOfId(brackets, m.nextId)
          IN IF m.round < LastRound
             THEN /\ p # 0
                  /\ brackets[p].round = m.round + 1
                  /\ brackets[p].division = m.division
                  /\ m.nextSide \in {"team1", "team2"}
             ELSE m.nextId = NoId /\ m.nextSide = "none"
    /\ \A p \in 1..Len(brackets) :
          \A side \in {"team1", "team2"} : Cardinality(ChildrenOf(p, side)) <= 1

\* C15 as stated: buildBracket returns (no endless recursion, no error) for
\* every team count N >= 0 and every requestedByes in 0..5, and N = 0 yields
\* the empty bracket.
C15_AsStated ==
    call.op = "buildBracket3" =>
        /\ out.ended = Returned
        /\ (Len(call.teams) = 0 => brackets = <<>>)

\* what this build does: the call returns exactly when N + numByes is a power
\* of two (or N = 0), and then every team of two or more is in exactly one
\* slot (a lone team gets no match at all)
C15_ReturnsOnPowersOfTwo ==
    call.op = "buildBracket3" =>
        /\ (out.ended = Returned <=> (Len(call.teams) = 0 \/ IsPow2(out.size)))
        /\ (Len(call.teams) = 1 => brackets = <<>>)
        /\ (out.ended = Returned /\ Len(call.teams) >= 2 =>
               \A t \in Range(call.teams) :
                   Cardinality({ <<k, side>> \in (1..Len(brackets)) \X {1, 2} :
                       (IF side = 1 THEN brackets[k].team1 ELSE brackets[k].team2) = t }) = 1)

\* C15 for the primary build: N = 0 yields the empty bracket, and a non-empty
\* team list yields the size - 1 matches of a full tree
C15_PrimaryReturns ==
    call.op = "buildBracket" =>
        /\ (Len(call.teams) = 0 => brackets = <<>>)
        /\ (Len(call.teams) >= 1 => Len(brackets) = Max2(1, out.size - 1))

(***************************************************************************)
(* Claims about buildBracket (checked under SpecBuild)                     *)
(***************************************************************************)
BuiltNonEmpty == call.op = "buildBracket" /\ Len(call.teams) >= 1

\* the match of the built division at (round, slot)
BuiltMatch(round, slot) ==
    brackets[IndexOfId(brackets, MatchId(call.division, round, slot))]

\* effectiveByes = min(max(bracketSize - N, requestedByes), 5, bracketSize)
EffectiveByes(size, N, requested) ==
    LET structural == size - N
        m1 == IF structural >= requested THEN structural ELSE requested
        m2 == IF m1 <= 5 THEN m1 ELSE 5
    IN IF m2 <= size THEN m2 ELSE size

\* the team that round-1 slot k held alone when the teams were placed, NoTeam
\* when it held none or two
LoneTeam(k) ==
    LET a == out.slots[2 * k - 1]
        b == IF 2 * k <= Len(out.slots) THEN out.slots[2 * k] ELSE NoTeam
    IN IF a # NoTeam /\ b = NoTeam THEN a
       ELSE IF a = NoTeam /\ b # NoTeam THEN b
       ELSE NoTeam

RoundOneSlots == 1..((out.size + 1) \div 2)

ByeEligibleLone(k) ==
    /\ LoneTeam(k) # NoTeam
    /\ LoneTeam(k).seed <= EffectiveByes(out.size, Len(call.teams), call.byes)

ByeResolved(k) ==
    LET m == BuiltMatch(1, k)
        p == IndexOfId(brackets, m.nextId)
    IN /\ m.nextId # NoId
       /\ p # 0
       /\ m.nextSide \in {"team1", "team2"}
       /\ (m.nextSide = "team1" => brackets[p].team1 = LoneTeam(k))
       /\ (m.nextSide = "team2" => brackets[p].team2 = LoneTeam(k))
       /\ m.score = BYE
       /\ m.team1 = NoTeam
       /\ m.team2 = NoTeam

\* C2 as stated: after buildBracket on N teams seeded 1..N, every round-1 match
\* that held exactly one team whose seed is <= effectiveByes has that team in
\* its parent's slot per the forward pointer, score "BYE" and both teams cleared.
C2_AsStated ==
    BuiltNonEmpty => \A k \in RoundOneSlots : ByeEligibleLone(k) => ByeResolved(k)

\* C2 amended: the same for N >= 2 (a one-team bracket has a single match with
\* no forward pointer: the match is marked "BYE" and cleared, the team is in no slot).
C2_ByeAutoAdvance ==
    BuiltNonEmpty =>
        /\ Len(call.teams) >= 2 =>
              \A k \in RoundOneSlots : ByeEligibleLone(k) => ByeResolved(k)
        /\ Len(call.teams) = 1 =>
              /\ Len(brackets) = 1
              /\ brackets[1].nextId = NoId
              /\ brackets[1].score = BYE
              /\ brackets[1].team1 = NoTeam
              /\ brackets[1].team2 = NoTeam

\* the spec's example: N = 5, requestedByes = 1 puts seeds 1, 2 and 3 into round 2
C2_Witness ==
    /\ call.op = "buildBracket"
    /\ Len(call.teams) = 5
    /\ call.byes = 1
    /\ \A s \in 1..3 :
          \E i \in 1..Len(brackets) :
              /\ brackets[i].round = 2
              /\ call.teams[s] \in {brackets[i].team1, brackets[i].team2}
    /\ \E k \in RoundOneSlots : ByeEligibleLone(k) /\ ByeResolved(k)

\* order(1) = [1], order(2) = [1,2], order(n) = for each s in order(n/2): (s, n+1-s)
RECURSIVE FoldEmit(_, _)
FoldEmit(prev, n) ==
    IF prev = <<>> THEN <<>>
    ELSE <<Head(prev), n + 1 - Head(prev)>> \o FoldEmit(Tail(prev), n)

RECURSIVE FoldOrder(_)
FoldOrder(n) ==
    IF n = 1 THEN <<1>>
    ELSE IF n = 2 THEN <<1, 2>>
    ELSE FoldEmit(FoldOrder(n \div 2), n)

\* C8: for every bracket size n = 1, 2, 4, ..., 32 the slot order buildBracket
\* uses is the recursive fold order, a permutation of 1..n whose round-1 pairs
\* sum to n+1, with order(4) = [1,4,2,3] and order(8) = [1,8,4,5,2,7,3,6]; the
\* round-1 matches that are played hold the seeds of that order.
C8_EspnFold ==
    BuiltNonEmpty =>
        LET n == out.size
            o == out.order
        IN /\ o = FoldOrder(n)
           /\ Len(o) = n
           /\ Range(o) = 1..n
           /\ n >= 2 => \A k \in 1..(n \div 2) : o[2 * k - 1] + o[2 * k] = n + 1
           /\ n = 4 => o = <<1, 4, 2, 3>>
           /\ n = 8 => o = <<1, 8, 4, 5, 2, 7, 3, 6>>
           /\ \A k \in RoundOneSlots :
                 LET m == BuiltMatch(1, k)
                 IN (m.team1 # NoTeam /\ m.team2 # NoTeam) =>
                       /\ m.team1.seed = FoldOrder(n)[2 * k - 1]
                       /\ m.team2.seed = FoldOrder(n)[2 * k]

C8_Witness ==
    /\ call.op = "buildBracket"
    /\ out.size = 32
    /\ Len(call.teams) = 17
    /\ BuiltMatch(1, 1).team1 = NoTeam
    /\ \E k \in RoundOneSlots :
          BuiltMatch(1, k).team1 # NoTeam /\ BuiltMatch(1, k).team1.seed = 16

\* C9 as stated: when requestedByes = k (1..5) exceeds the structural bye count
\* bracketSize - N, seeds 1..k still advance to round 2 without playing round 1
\* (brackets with a round 2 and at least k teams).
C9_AsStated ==
    (/\ BuiltNonEmpty
     /\ out.size >= 4
     /\ call.byes \in 1..5
     /\ call.byes <= Len(call.teams)
     /\ call.byes > out.size - Len(call.teams)) =>
        \A s \in 1..call.byes :
            /\ \E i \in 1..Len(brackets) :
                  /\ brackets[i].round = 2
                  /\ call.teams[s] \in {brackets[i].team1, brackets[i].team2}
            /\ \A i \in 1..Len(brackets) :
                  brackets[i].round = 1 =>
                      call.teams[s] \notin {brackets[i].team1, brackets[i].team2}

(***************************************************************************)
(* Player names, slug and shuffle                                          *)
(***************************************************************************)
\* display names as typed into the rosters (trimmed, no blank, no duplicate)
GuyNames == <<"Al", "Bo", "Cy", "Dan", "Eli", "Gus", "Hal">>

GirlNames == <<"Eve", "Fay", "Gia", "Hon", "Ivy", "Joy", "Kim">>

\* a name typed in neither roster
StrayName == "Zed"

\* slug(s) = s.trim().toLowerCase().replace(/\s+/g, ' ')
slug(s) ==
    CASE s = "Al" -> "al" [] s = "Bo" -> "bo" [] s = "Cy" -> "cy"
      [] s = "Dan" -> "dan" [] s = "Eve" -> "eve" [] s = "Fay" -> "fay"
      [] s = "Gia" -> "gia" [] s = "Hon" -> "hon" [] s = "Zed" -> "zed"
      [] s = "Eli" -> "eli" [] s = "Gus" -> "gus" [] s = "Hal" -> "hal"
      [] s = "Ivy" -> "ivy" [] s = "Joy" -> "joy" [] s = "Kim" -> "kim"
      [] OTHER -> s

\* the linear congruential generator of shuffle: r is kept as its sign and two
\* 16-bit limbs, r = (neg ? -1 : 1) * (hi * 65536 + lo)
LcgWord == 65536

LcgMulHi == 25

LcgMulLo == 26125

LcgAddHi == 15470

LcgAddLo == 62303

ToLcg(seed) ==
    [neg |-> seed < 0, hi |-> Abs(seed) \div LcgWord, lo |-> Abs(seed) % LcgWord]

\* |r| * 1664525 mod 2^32, as limbs
LcgMulMag(r) ==
    LET low == r.lo * LcgMulLo
        lo  == low % LcgWord
        hi  == (r.hi * LcgMulLo + r.lo * LcgMulHi + low \div LcgWord) % LcgWord
    IN [hi |-> hi, lo |-> lo]

\* r = (r * 1664525 + 1013904223) % 4294967296, % truncating toward zero
LcgNext(r) ==
    LET m == LcgMulMag(r)
    IN IF ~r.neg
       THEN LET lo == m.lo + LcgAddLo
                hi == m.hi + LcgAddHi + lo \div LcgWord
            IN [neg |-> FALSE, hi |-> hi % LcgWord, lo |-> lo % LcgWord]
       ELSE IF r.hi = 0 /\ r.lo < 610
       THEN \* |r| * 1664525 < 1013904223: the sum is positive and below 2^32
            LET v == (LcgAddHi * LcgWord + LcgAddLo) - r.lo * (LcgMulHi * LcgWord + LcgMulLo)
            IN [neg |-> FALSE, hi |-> v \div LcgWord, lo |-> v % LcgWord]
       ELSE \* the sum is <= 0: -((|r| * 1664525 - 1013904223) mod 2^32)
            LET lo == m.lo - LcgAddLo
                bw == IF lo < 0 THEN 1 ELSE 0
                hi == m.hi - LcgAddHi - bw
            IN [neg |-> (hi % LcgWord) # 0 \/ (lo % LcgWord) # 0,
                hi |-> hi % LcgWord, lo |-> lo % LcgWord]

\* Math.floor((r / 4294967296) * k) for a small positive integer k
LcgIndex(r, k) ==
    LET q   == r.hi * k + (r.lo * k) \div LcgWord
        fl  == q \div LcgWord
        ex  == (q % LcgWord) # 0 \/ (r.lo * k) % LcgWord # 0
    IN IF ~r.neg THEN fl
       ELSE IF ex THEN -(fl + 1) ELSE -fl

\* mutation: a[i] = a[j] without the write back
Swap_Overwrite(a, i, j) == [a EXCEPT ![i] = a[j]]

Swap(a, i, j) == [a EXCEPT ![i] = a[j], ![j] = a[i]]

\* for (i = a.length - 1; i > 0; i--) { j = floor(rand() * (i + 1)); swap }
\* (positions here are 1-based: JavaScript's i is pos - 1)
RECURSIVE ShuffleFrom(_, _, _)
ShuffleFrom(a, pos, r) ==
    IF pos <= 1 THEN a
    ELSE Only({ Only({ ShuffleFrom(b, pos - 1, r1) :
                         b \in {Swap(a, pos, LcgIndex(r1, pos) + 1)} }) :
                r1 \in {LcgNext(r)} })

\* shuffle(arr, seed) with the seed given; an absent seed is drawn by the caller
shuffle(arr, seed) == ShuffleFrom(arr, Len(arr), ToLcg(seed))

(***************************************************************************)
(* RoundGenerator: partner / opponent history and buildRound               *)
(***************************************************************************)
\* Number(seedStr) for the seed box: <<>> when the box is empty (seedNum
\* undefined), else <<value>>; the texts used are decimal integers
seedNumOf(seedStr) ==
    IF seedStr = <<>> THEN <<>>
    ELSE IF Head(seedStr) = "-" THEN <<-DigitsValue(Tail(seedStr))>>
    ELSE <<DigitsValue(seedStr)>>

\* Map<slug, Set<slug>> as the set of pairs <<A, B>> with B in mp.get(A)
buildPartnerMap(history) ==
    LET add(a, b) == IF a = "" \/ b = "" THEN {}
                     ELSE {<<slug(a), slug(b)>>, <<slug(b), slug(a)>>}
    IN UNION { add(history[k].t1p1, history[k].t1p2)
                 \cup add(history[k].t2p1, history[k].t2p2) : k \in 1..Len(history) }

buildOpponentMap(history) ==
    LET cross(t1, t2) == { <<slug(a), slug(b)>> :
                             <<a, b>> \in { <<x, y>> \in t1 \X t2 : x # "" /\ y # "" } }
        one(m) == LET t1 == {m.t1p1, m.t1p2}
                      t2 == {m.t2p1, m.t2p2}
                  IN cross(t1, t2) \cup cross(t2, t1)
    IN UNION { one(history[k]) : k \in 1..Len(history) }

canPair(strict, mp, a, b) == ~strict \/ <<slug(a), slug(b)>> \notin mp

\* mutation: the opponent map is never consulted
haventOpposed_Always(strict, mp, a, b) == TRUE

haventOpposed(strict, mp, a, b) == ~strict \/ <<slug(a), slug(b)>> \notin mp

\* partnerMap after committing the pair (g, h)
AddPartners(mp, g, h) == mp \cup {<<slug(g), slug(h)>>, <<slug(h), slug(g)>>}

\* the mixed-pair loop from position i on (1-based); H is swapped in place,
\* partnerMap grows with every commit; steps keeps, per position, the girls
\* list and partner map the iteration started from and the girl committed
RECURSIVE PairLoop(_, _, _, _, _, _, _, _)
PairLoop(strict, G, H, n, i, partnerMap, pairs, steps) ==
    IF i > n THEN [H |-> H, partnerMap |-> partnerMap, pairs |-> pairs, steps |-> steps]
    ELSE LET g == G[i]
             h == H[i]
             later == { j \in (i + 1)..n : canPair(strict, partnerMap, g, H[j]) }
             j0 == CHOOSE j \in later : \A k \in later : j <= k
             H2 == IF canPair(strict, partnerMap, g, h) \/ later = {} THEN H
                   ELSE Swap(H, i, j0)
             team == [team |-> <<g, H2[i]>>, tag |-> "null"]
             step == [i |-> i, g |-> g, H |-> H, partnerMap |-> partnerMap,
                      h |-> H2[i]]
         IN PairLoop(strict, G, H2, n, i + 1, AddPartners(partnerMap, g, H2[i]),
                     Append(pairs, team), Append(steps, step))

\* mutation: the extra girls never form a team
ExtraTeams_GuysOnly(G, H, n) ==
    LET extraGuys == SubSeq(G, n + 1, Len(G))
    IN IF Len(extraGuys) >= 2
       THEN <<[team |-> <<extraGuys[1], extraGuys[2]>>, tag |-> "ULTIMATE_REVCO"]>>
       ELSE <<>>

\* mutation: the extra team is made of the last two leftovers
ExtraTeams_LastTwo(G, H, n) ==
    LET extraGuys == SubSeq(G, n + 1, Len(G))
        extraGirls == SubSeq(H, n + 1, Len(H))
    IN (IF Len(extraGuys) >= 2
        THEN <<[team |-> <<extraGuys[Len(extraGuys) - 1], extraGuys[Len(extraGuys)]>>,
                tag |-> "ULTIMATE_REVCO"]>>
        ELSE <<>>)
       \o
       (IF Len(extraGirls) >= 2
        THEN <<[team |-> <<extraGirls[Len(extraGirls) - 1], extraGirls[Len(extraGirls)]>>,
                tag |-> "POWER_PUFF"]>>
        ELSE <<>>)

\* the leftover teams: the first two extra guys, the first two extra girls
ExtraTeams(G, H, n) ==
    LET extraGuys == SubSeq(G, n + 1, Len(G))
        extraGirls == SubSeq(H, n + 1, Len(H))
    IN (IF Len(extraGuys) >= 2
        THEN <<[team |-> <<extraGuys[1], extraGuys[2]>>, tag |-> "ULTIMATE_REVCO"]>>
        ELSE <<>>)
       \o
       (IF Len(extraGirls) >= 2
        THEN <<[team |-> <<extraGirls[1], extraGirls[2]>>, tag |-> "POWER_PUFF"]>>
        ELSE <<>>)

RemoveAt(s, i) == SubSeq(s, 1, i - 1) \o SubSeq(s, i + 1, Len(s))

\* the court loop: shift the first team, take the first team it has not
\* opposed (else the next one), record the opponents, emit the MatchRow
RECURSIVE CourtLoop(_, _, _, _, _, _)
CourtLoop(strict, teamList, opponentMap, court, roundIdx, nonce) ==
    IF Len(teamList) < 2 THEN <<>>
    ELSE LET a == Head(teamList)
             rest == Tail(teamList)
             ok(i) == \A x \in 1..2, y \in 1..2 :
                          haventOpposed(strict, opponentMap, a.team[x], rest[i].team[y])
             good == { i \in 1..Len(rest) : ok(i) }
             idx == IF good = {} THEN 1 ELSE CHOOSE i \in good : \A k \in good : i <= k
             b == rest[idx]
             opp2 == opponentMap
                       \cup { <<slug(a.team[x]), slug(b.team[y])>> : x \in 1..2, y \in 1..2 }
                       \cup { <<slug(b.team[x]), slug(a.team[y])>> : x \in 1..2, y \in 1..2 }
             row == [ id |-> <<roundIdx, court, nonce>>,
                      round |-> roundIdx,
                      court |-> court,
                      t1p1 |-> a.team[1], t1p2 |-> a.team[2],
                      t2p1 |-> b.team[1], t2p2 |-> b.team[2],
                      tag |-> IF a.tag # "null" THEN a.tag ELSE b.tag,
                      scoreText |-> <<>> ]
         IN <<row>> \o CourtLoop(strict, RemoveAt(rest, idx), opp2, court + 1,
                                 roundIdx, nonce)

\* buildRound(roundIdx, history) with the component state it reads passed in;
\* gSeed and hSeed are the seeds the two shuffles run with
buildRound(roundIdx, history, G0, H0, strict, startCourt, gSeed, hSeed, nonce) ==
    LET G == shuffle(G0, gSeed)
        H == shuffle(H0, hSeed)
        n == Min2(Len(G), Len(H))
        paired == PairLoop(strict, G, H, n, 1, buildPartnerMap(history), <<>>, <<>>)
        pairs == paired.pairs \o ExtraTeams(G, paired.H, n)
    IN [ roundIdx |-> roundIdx, history |-> history, G |-> G, H |-> H,
         gSeed |-> gSeed, hSeed |-> hSeed, steps |-> paired.steps, pairs |-> pairs,
         made |-> CourtLoop(strict, pairs, buildOpponentMap(history), startCourt,
                            roundIdx, nonce) ]

\* clampN on the integers the number boxes hold
clampN(n, min) == Max2(min, n)

RECURSIVE MaxRoundOf(_)
MaxRoundOf(history) ==
    IF history = <<>> THEN 0
    ELSE Max2(MaxRoundOf(SubSeq(history, 1, Len(history) - 1)),
              history[Len(history)].round)

\* the loop of onGenerate from round i of n on: each round is built on the
\* history extended by the rounds before it
RECURSIVE GenRounds(_, _, _, _, _, _, _, _, _, _, _)
GenRounds(i, n, currentMax, history, G0, H0, strict, startCourt, gSeeds, hSeeds, nonce) ==
    IF i > n THEN <<>>
    ELSE LET one == buildRound(currentMax + i, history, G0, H0, strict, startCourt,
                               gSeeds[i], hSeeds[i], nonce)
         IN <<one>> \o GenRounds(i + 1, n, currentMax, history \o one.made, G0, H0,
                                 strict, startCourt, gSeeds, hSeeds, nonce)

RECURSIVE FlattenMade(_)
FlattenMade(rounds) ==
    IF rounds = <<>> THEN <<>> ELSE Head(rounds).made \o FlattenMade(Tail(rounds))

(***************************************************************************)
(* SpecRound: rosters fixed at the start, rounds generated in batches      *)
(***************************************************************************)
\* roster sizes 0 .. MaxRoster per gender
MaxRoster == 3

\* rounds generated in all
MaxRound == 2

\* startCourt ranges over 1 .. MaxStartCourt
MaxStartCourt == 2

\* values Math.random() * 1e9 takes when shuffle is called without a seed
RandSeeds == {144272509, 611178002, 817077201}

\* contents of the seed box: empty, "0", "42"
SeedTexts == {<<>>, <<"0">>, <<"4", "2">>}

\* the part of a match id that comes from Date.now() and Math.random()
Nonces == {"n1", "n2"}

\* seeds shuffle(guys, seedNum) can run with
GuySeeds(seedNum) == IF seedNum = <<>> THEN RandSeeds ELSE {seedNum[1]}

\* seeds shuffle(girls, seedNum ? seedNum + 17 : undefined) can run with
GirlSeeds(seedNum) ==
    IF seedNum # <<>> /\ seedNum[1] # 0 THEN {seedNum[1] + 17} ELSE RandSeeds

InitRound ==
    /\ \E k \in 0..MaxRoster : guys = SubSeq(GuyNames, 1, k)
    /\ \E k \in 0..MaxRoster : girls = SubSeq(GirlNames, 1, k)
    /\ matches = <<>>
    /\ brackets = <<>>
    /\ tieAdjust = <<>>
    /\ call = NoCall
    /\ out = NoOut

\* onGenerate: the whole handler, setMatches included; gSeeds[i] and hSeeds[i]
\* are the seeds the shuffles of the i-th round run with.  Guards: MaxRound caps
\* the round counter; a call that left the history empty is not repeated (it
\* would start from the same rosters and history as the first call).
OnGenerate(strict, roundsToGen, startCourt, seedStr, nonce) ==
    LET n == clampN(roundsToGen, 1)
        currentMax == MaxRoundOf(matches)
    IN /\ currentMax + n <= MaxRound
       /\ matches = <<>> => call = NoCall
       /\ \E gSeeds \in [1..n -> GuySeeds(seedNumOf(seedStr))],
             hSeeds \in [1..n -> GirlSeeds(seedNumOf(seedStr))] :
             LET rounds == GenRounds(1, n, currentMax, matches, guys, girls, strict,
                                     startCourt, gSeeds, hSeeds, nonce)
             IN /\ matches' = matches \o FlattenMade(rounds)
                /\ out' = [op |-> "onGenerate", rounds |-> rounds]
       /\ call' = [op |-> "onGenerate", strict |-> strict, roundsToGen |-> roundsToGen,
                   startCourt |-> startCourt, seedStr |-> seedStr]
       /\ UNCHANGED <<guys, girls, brackets, tieAdjust>>

NextRound ==
    \E strict \in BOOLEAN, roundsToGen \in 1..MaxRound, startCourt \in 1..MaxStartCourt,
       seedStr \in SeedTexts, nonce \in Nonces :
        OnGenerate(strict, roundsToGen, startCourt, seedStr, nonce)

SpecRound == InitRound /\ [][NextRound]_vars

(***************************************************************************)
(* SpecShuffle: shuffle(arr, seed) run one loop iteration at a time         *)
(***************************************************************************)
\* longest list handed to shuffle on its own
MaxShuffleLen == 5

\* contents of the seed box
ShuffleSeedTexts ==
    { <<"0">>, <<"4", "2">>, <<"5", "9">>, <<"-", "1">>, <<"-", "1", "7">>,
      <<"-", "6", "0", "9">>, <<"-", "6", "1", "0">>, <<"-", "1", "0", "0", "0">> }

\* what reading an absent element or property of an array gives
Undefined == "undefined"

\* the copy a = arr.slice() as a function of the 0-based index; the negative
\* keys are the properties a[j] = ... creates when j < 0
ArrayCopy(arr) ==
    [k \in (-Len(arr))..(Len(arr) - 1) |-> IF k >= 0 THEN arr[k + 1] ELSE Undefined]

\* [a[i], a[j]] = [a[j], a[i]] on that function
SwapJS(a, i, j) == [a EXCEPT ![i] = a[j], ![j] = a[i]]

\* the call: a = arr.slice(); r = seed; i = a.length - 1
ShuffleStart(arr, seedStr) ==
    /\ call' = [op |-> "shuffle", arr |-> arr, seed |-> seedNumOf(seedStr)[1]]
    /\ out' = [op |-> "shuffle", a |-> ArrayCopy(arr),
               r |-> ToLcg(seedNumOf(seedStr)[1]), i |-> Len(arr) - 1, js |-> <<>>]
    /\ UNCHANGED <<guys, girls, matches, brackets, tieAdjust>>

\* one iteration: j = Math.floor(rand() * (i + 1)); swap; i--
ShuffleStep ==
    /\ call.op = "shuffle"
    /\ out.i > 0
    /\ \E r1 \in {LcgNext(out.r)} :
          \E j \in {LcgIndex(r1, out.i + 1)} :
             out' = [op |-> "shuffle", a |-> SwapJS(out.a, out.i, j), r |-> r1,
                     i |-> out.i - 1, js |-> Append(out.js, <<out.i, j>>)]
    /\ UNCHANGED <<guys, girls, matches, brackets, tieAdjust, call>>

NextShuffle ==
    \/ \E n \in 0..MaxShuffleLen, seedStr \in ShuffleSeedTexts :
          ShuffleStart(SubSeq(GuyNames, 1, n), seedStr)
    \/ ShuffleStep

SpecShuffle == InitBuild /\ [][NextShuffle]_vars

\* return a: the elements 0 .. length - 1 of the copy
Returned30 == [k \in 1..Len(call.arr) |-> out.a[k - 1]]

ShuffleDone == call.op = "shuffle" /\ out.i <= 0

IsPermutation(res, arr) ==
    /\ Len(res) = Len(arr)
    /\ \A x \in Range(arr) \cup Range(res) :
          Cardinality({ k \in 1..Len(res) : res[k] = x })
            = Cardinality({ k \in 1..Len(arr) : arr[k] = x })

\* C30 as stated: for every integer seed of the seed field, 0 and negative
\* ones included, the generator state is within 0 .. 2^32 - 1 after every
\* step, every swap index j satisfies 0 <= j <= i, and shuffle returns a
\* permutation of its input.
C30_AsStated ==
    call.op = "shuffle" =>
        /\ (out.js # <<>> => ~out.r.neg)
        /\ \A s \in 1..Len(out.js) : 0 <= out.js[s][2] /\ out.js[s][2] <= out.js[s][1]
        /\ (ShuffleDone => IsPermutation(Returned30, call.arr))

\* what the code does: all of that for every seed from -609 up, and the result
\* is the one the closed form of shuffle gives; from -610 down the first
\* generator state is negative
C30_FromMinus609 ==
    call.op = "shuffle" =>
        /\ (call.seed >= -609 =>
              /\ (out.js # <<>> => ~out.r.neg)
              /\ \A s \in 1..Len(out.js) :
                    0 <= out.js[s][2] /\ out.js[s][2] <= out.js[s][1]
              /\ (ShuffleDone => /\ IsPermutation(Returned30, call.arr)
                                 /\ Returned30 = shuffle(call.arr, call.seed)))
        /\ (call.seed <= -610 /\ out.js # <<>> => out.r.neg /\ out.js[1][2] < 0)

(***************************************************************************)
(* Claims about round generation (checked under SpecRound)                 *)
(***************************************************************************)
Generated == call.op = "onGenerate"

\* a and b were on one team in some match of the history
PartneredIn(history, a, b) ==
    \E k \in 1..Len(history) :
        \/ {history[k].t1p1, history[k].t1p2} = {a, b}
        \/ {history[k].t2p1, history[k].t2p2} = {a, b}

\* positions after st.i of the girls list the step st started from whose girl
\* has not partnered st.g in the round's history
FreshLater(r, st) ==
    { j \in (st.i + 1)..Len(st.H) : ~PartneredIn(r.history, st.g, st.H[j]) }

\* C3 as stated: in strict mode a committed pair (G[i], h) that partnered before
\* (in the history, which holds the earlier rounds of the batch) means every
\* girl at a later position of H has partnered G[i] too; when H[i] is a repeat
\* and some later girl is not, the first such girl is the one committed.
C3_AsStated ==
    (Generated /\ call.strict) =>
        \A x \in 1..Len(out.rounds) :
            LET r == out.rounds[x]
            IN \A y \in 1..Len(r.steps) :
                  LET st == r.steps[y]
                      fresh == FreshLater(r, st)
                  IN /\ PartneredIn(r.history, st.g, st.h) => fresh = {}
                     /\ (PartneredIn(r.history, st.g, st.H[st.i]) /\ fresh # {}) =>
                            st.h = st.H[CHOOSE j \in fresh : \A k \in fresh : j <= k]

\* T of a round: the mixed teams plus one same-gender team when one roster is
\* at least two longer than the other
TeamCount ==
    Min2(Len(guys), Len(girls)) + (IF Abs(Len(guys) - Len(girls)) >= 2 THEN 1 ELSE 0)

RosterNames == Range(guys) \cup Range(girls)

\* the number of matches buildRound makes on the inputs of round r with the
\* strict flag set to the given value
MadeWith(r, strict) ==
    Len(buildRound(r.roundIdx, r.history, guys, girls, strict, call.startCourt,
                   r.gSeed, r.hSeed, "n1").made)

Leftovers(r) ==
    LET n == Min2(Len(r.G), Len(r.H))
    IN IF Len(r.G) > Len(r.H) THEN SubSeq(r.G, n + 1, Len(r.G))
       ELSE SubSeq(r.H, n + 1, Len(r.H))

PlaysIn(r, name) ==
    \E k \in 1..Len(r.made) :
        name \in {r.made[k].t1p1, r.made[k].t1p2, r.made[k].t2p1, r.made[k].t2p2}

TeamedIn(r, name) ==
    \E k \in 1..Len(r.pairs) : name \in Range(r.pairs[k].team)

\* C13: after the one-to-one pairing of a round, two or more leftovers of the
\* longer roster give exactly one extra team, made of the first two leftovers
\* and tagged for their gender; a single leftover gives no extra team and
\* plays no match of the round; leftovers beyond the first two are on no team
\* and play no match of the round.
C13_Leftovers ==
    Generated =>
        \A x \in 1..Len(out.rounds) :
            LET r == out.rounds[x]
                n == Min2(Len(r.G), Len(r.H))
                left == Leftovers(r)
            IN /\ \A k \in 1..Min2(n, Len(r.pairs)) : r.pairs[k].tag = "null"
               /\ Len(left) >= 2 =>
                     /\ Len(r.pairs) = n + 1
                     /\ r.pairs[n + 1].team = <<left[1], left[2]>>
                     /\ r.pairs[n + 1].tag = (IF Len(r.G) > Len(r.H) THEN "ULTIMATE_REVCO"
                                              ELSE "POWER_PUFF")
               /\ Len(left) <= 1 => Len(r.pairs) = n
               /\ Len(left) = 1 => ~TeamedIn(r, left[1]) /\ ~PlaysIn(r, left[1])
               /\ \A k \in 3..Len(left) : ~TeamedIn(r, left[k]) /\ ~PlaysIn(r, left[k])

\* one guy and three girls: the first two leftover girls are the extra team,
\* which plays the mixed team; the third leftover girl sits out
C13_Witness ==
    /\ Generated
    /\ Len(guys) = 1
    /\ Len(girls) = 3
    /\ \E x \in 1..Len(out.rounds) :
          LET r == out.rounds[x]
          IN /\ Len(r.pairs) = 2
             /\ r.pairs[2].tag = "POWER_PUFF"
             /\ r.pairs[2].team = <<r.H[2], r.H[3]>>
             /\ Len(r.made) = 1
             /\ PlaysIn(r, r.H[2])

\* a and b stood on opposite teams of some match of the list
OpposedIn(list, a, b) ==
    \E k \in 1..Len(list) :
        \/ a \in {list[k].t1p1, list[k].t1p2} /\ b \in {list[k].t2p1, list[k].t2p2}
        \/ a \in {list[k].t2p1, list[k].t2p2} /\ b \in {list[k].t1p1, list[k].t1p2}

\* positions of the round's team list not yet placed before match c of round r
RemainingAt(r, c) ==
    SelectSeq([i \in 1..Len(r.pairs) |-> i],
              LAMBDA i : \A k \in 1..(c - 1) :
                  /\ r.pairs[i].team # <<r.made[k].t1p1, r.made[k].t1p2>>
                  /\ r.pairs[i].team # <<r.made[k].t2p1, r.made[k].t2p2>>)

\* positions j >= 2 of rem whose team has no member that opposed a member of
\* the first remaining team, by the history and the matches placed so far
FreshOpponents(r, c, rem) ==
    { j \in 2..Len(rem) :
        \A a \in Range(r.pairs[rem[1]].team), b \in Range(r.pairs[rem[j]].team) :
            ~OpposedIn(r.history \o SubSeq(r.made, 1, c - 1), a, b) }

TeamSlotsOf(r, name) ==
    { kx \in (1..Len(r.pairs)) \X {1, 2} : r.pairs[kx[1]].team[kx[2]] = name }

\* the sides <<c, side>> of round r's matches taken by team number k
MatchSidesOf(r, k) ==
    { cs \in (1..Len(r.made)) \X {1, 2} :
        r.pairs[k].team = (IF cs[2] = 1 THEN <<r.made[cs[1]].t1p1, r.made[cs[1]].t1p2>>
                           ELSE <<r.made[cs[1]].t2p1, r.made[cs[1]].t2p2>>) }

C23_AsStated ==
    (Generated /\ call.seedStr # <<>>) =>
        \A x \in 1..Len(out.rounds) :
            /\ out.rounds[x].G = shuffle(guys, seedNumOf(call.seedStr)[1])
            /\ out.rounds[x].H = shuffle(girls, seedNumOf(call.seedStr)[1] + 17)

\* what the code does: the same for every supplied seed other than 0; with
\* seed 0 the guys are shuffled with 0 and the girls with a drawn seed
C23_NonZeroSeed ==
    (Generated /\ call.seedStr # <<>>) =>
        \A x \in 1..Len(out.rounds) :
            /\ out.rounds[x].G = shuffle(guys, seedNumOf(call.seedStr)[1])
            /\ IF seedNumOf(call.seedStr)[1] # 0
               THEN out.rounds[x].H = shuffle(girls, seedNumOf(call.seedStr)[1] + 17)
               ELSE \E drawn \in RandSeeds : out.rounds[x].H = shuffle(girls, drawn)

\* the match lists a second call of onGenerate can return on the inputs of the
\* call just made: same rosters, history, strict flag, round count, start
\* court and seed text
Regenerated ==
    LET n == clampN(call.roundsToGen, 1)
        first == out.rounds[1]
    IN { FlattenMade(GenRounds(1, n, first.roundIdx - 1, first.history, guys, girls,
                               call.strict, call.startCourt, gSeeds, hSeeds, nonce)) :
           gSeeds \in [1..n -> GuySeeds(seedNumOf(call.seedStr))],
           hSeeds \in [1..n -> GirlSeeds(seedNumOf(call.seedStr))],
           nonce \in Nonces }

WithoutIds(ms) == [k \in 1..Len(ms) |-> [ms[k] EXCEPT !.id = <<>>]]

\* C14 as stated: a second call of round generation with the same rosters,
\* history, strict flag, round count, start court and supplied seed returns
\* the same matches, equal in every field.
C14_AsStated ==
    (Generated /\ call.seedStr # <<>>) =>
        \A again \in Regenerated : again = FlattenMade(out.rounds)

\* what is reproducible: with a supplied seed other than 0 the second call
\* returns the same matches in every field but the id
C14_SeededApartFromId ==
    (Generated /\ call.seedStr # <<>> /\ seedNumOf(call.seedStr) # <<0>>) =>
        \A again \in Regenerated : WithoutIds(again) = WithoutIds(FlattenMade(out.rounds))

(***************************************************************************)
(* Standings: computeStandings, Leaderboard and their sorts                *)
(***************************************************************************)
\* the names in String.localeCompare order
NameOrder ==
    <<"Al", "Bo", "Cy", "Dan", "Eli", "Eve", "Fay", "Gia", "Gus", "Hal", "Hon", "Ivy",
      "Joy", "Kim", "Zed">>

NameRank(n) == CHOOSE i \in 1..Len(NameOrder) : NameOrder[i] = n

localeCompare(x, y) ==
    IF NameRank(x) < NameRank(y) THEN -1 ELSE IF NameRank(x) > NameRank(y) THEN 1 ELSE 0

\* a Map<string, Bucket> in insertion order; ensure adds a 0-0-0 bucket for a new key
ensure(map, n) ==
    IF \E i \in 1..Len(map) : map[i].name = n THEN map
    ELSE Append(map, [name |-> n, W |-> 0, L |-> 0, PD |-> 0])

RECURSIVE EnsureAll(_, _)
EnsureAll(map, names) ==
    IF names = <<>> THEN map
    ELSE Only({ EnsureAll(mp, Tail(names)) : mp \in {ensure(map, Head(names))} })

\* mutation: a loss is counted but the differential is not taken off
Tally_LossKeepsPD(map, n, won, diff) ==
    LET mp == ensure(map, n)
    IN [i \in 1..Len(mp) |->
          IF mp[i].name # n THEN mp[i]
          ELSE IF won THEN [mp[i] EXCEPT !.W = @ + 1, !.PD = @ + diff]
          ELSE [mp[i] EXCEPT !.L = @ + 1]]

\* row.W++ / row.PD += diff, or row.L++ / row.PD -= diff, on the bucket of n
Tally(map, n, won, diff) ==
    LET mp == ensure(map, n)
    IN [i \in 1..Len(mp) |->
          IF mp[i].name # n THEN mp[i]
          ELSE IF won THEN [mp[i] EXCEPT !.W = @ + 1, !.PD = @ + diff]
          ELSE [mp[i] EXCEPT !.L = @ + 1, !.PD = @ - diff]]

SlugSet(list) == { slug(list[i]) : i \in 1..Len(list) }

\* apply(name, won) of computeStandings: a name that is no guy goes to h
applyStandings(gh, guysSet, name, won, diff) ==
    IF slug(name) \in guysSet THEN [gh EXCEPT !.g = Tally(@, name, won, diff)]
    ELSE [gh EXCEPT !.h = Tally(@, name, won, diff)]

\* apply(name, won) of Leaderboard: guy -> g, girl -> h, neither -> g
applyLeaderboard(gh, guysSet, girlsSet, name, won, diff) ==
    IF slug(name) \in guysSet THEN [gh EXCEPT !.g = Tally(@, name, won, diff)]
    ELSE IF slug(name) \in girlsSet THEN [gh EXCEPT !.h = Tally(@, name, won, diff)]
    ELSE [gh EXCEPT !.g = Tally(@, name, won, diff)]

\* the body of `for (const m of matches)`; board selects Leaderboard's apply
\* apply(p, won) for the players of one side, in order
RECURSIVE ApplySide(_, _, _, _, _, _, _)
ApplySide(gh, names, won, diff, guysSet, girlsSet, board) ==
    IF names = <<>> THEN gh
    ELSE Only({ ApplySide(acc, Tail(names), won, diff, guysSet, girlsSet, board) :
                  acc \in { IF board
                            THEN applyLeaderboard(gh, guysSet, girlsSet, Head(names), won, diff)
                            ELSE applyStandings(gh, guysSet, Head(names), won, diff) } })

\* the body of `for (const m of matches)`; board selects Leaderboard's apply
TallyOne(gh, m, guysSet, girlsSet, board) ==
    LET s == parseScore(m.scoreText)
        diff == Abs(s[1] - s[2])
        t1Won == s[1] > s[2]
    IN IF s = NoParse THEN gh
       ELSE IF ~isValidPoolScore(s[1], s[2]) THEN gh
       ELSE Only({ ApplySide(acc, <<m.t2p1, m.t2p2>>, ~t1Won, diff, guysSet, girlsSet, board) :
                     acc \in { ApplySide(gh, <<m.t1p1, m.t1p2>>, t1Won, diff, guysSet,
                                         girlsSet, board) } })

RECURSIVE TallyMatches(_, _, _, _, _)
TallyMatches(gh, ms, guysSet, girlsSet, board) ==
    IF ms = <<>> THEN gh
    ELSE Only({ TallyMatches(acc, Tail(ms), guysSet, girlsSet, board) :
                  acc \in { TallyOne(gh, Head(ms), guysSet, girlsSet, board) } })

\* mutation: point differential compared ascending
compareRows_PDAscending(x, y) ==
    IF y.W - x.W # 0 THEN y.W - x.W
    ELSE IF x.PD - y.PD # 0 THEN x.PD - y.PD
    ELSE localeCompare(x.name, y.name)

\* (x, y) => y.W - x.W || y.PD - x.PD || x.name.localeCompare(y.name)
compareRows(x, y) ==
    IF y.W - x.W # 0 THEN y.W - x.W
    ELSE IF y.PD - x.PD # 0 THEN y.PD - x.PD
    ELSE localeCompare(x.name, y.name)

\* tieAdjust[name] ?? 0
tieOf(adj, n) == IF n \in DOMAIN adj THEN adj[n] ELSE 0

\* the comparator with the manual tiebreak between PD and name
compareRowsAdj(adj, x, y) ==
    IF y.W - x.W # 0 THEN y.W - x.W
    ELSE IF y.PD - x.PD # 0 THEN y.PD - x.PD
    ELSE IF tieOf(adj, x.name) - tieOf(adj, y.name) # 0
         THEN tieOf(adj, x.name) - tieOf(adj, y.name)
    ELSE localeCompare(x.name, y.name)

\* Array.prototype.sort (stable): each row goes behind the rows not after it
RECURSIVE InsertRow(_, _, _, _)
InsertRow(sorted, x, adj, useAdj) ==
    IF sorted = <<>> THEN <<x>>
    ELSE LET c == IF useAdj THEN compareRowsAdj(adj, x, Head(sorted))
                  ELSE compareRows(x, Head(sorted))
         IN IF c < 0 THEN <<x>> \o sorted
            ELSE <<Head(sorted)>> \o InsertRow(Tail(sorted), x, adj, useAdj)

RECURSIVE SortWith(_, _, _, _)
SortWith(done, arr, adj, useAdj) ==
    IF arr = <<>> THEN done
    ELSE Only({ SortWith(d, Tail(arr), adj, useAdj) :
                  d \in {InsertRow(done, Head(arr), adj, useAdj)} })

sortRows(arr) == SortWith(<<>>, arr, <<>>, FALSE)

sortRowsAdj(arr, adj) == SortWith(<<>>, arr, adj, TRUE)

computeStandings(ms, guysList, girlsList) ==
    Only({ [guysRows |-> sortRows(gh.g), girlsRows |-> sortRows(gh.h)] :
             gh \in { TallyMatches([g |-> EnsureAll(<<>>, guysList),
                                    h |-> EnsureAll(<<>>, girlsList)],
                                   ms, SlugSet(guysList), SlugSet(girlsList), FALSE) } })

Leaderboard(ms, guysList, girlsList) ==
    Only({ [guysRows |-> sortRows(gh.g), girlsRows |-> sortRows(gh.h)] :
             gh \in { TallyMatches([g |-> EnsureAll(<<>>, guysList),
                                    h |-> EnsureAll(<<>>, girlsList)],
                                   ms, SlugSet(guysList), SlugSet(girlsList), TRUE) } })

\* the Leaderboard of the variant with manual tiebreaks
LeaderboardAdj(ms, guysList, girlsList, adj) ==
    Only({ [guysRows |-> sortRowsAdj(gh.g, adj), girlsRows |-> sortRowsAdj(gh.h, adj)] :
             gh \in { TallyMatches([g |-> EnsureAll(<<>>, guysList),
                                    h |-> EnsureAll(<<>>, girlsList)],
                                   ms, SlugSet(guysList), SlugSet(girlsList), TRUE) } })

\* PlayoffBuilder's adjusted rows in that variant: computeStandings re-sorted
PlayoffRowsAdj(ms, guysList, girlsList, adj) ==
    Only({ [guysRows |-> sortRowsAdj(base.guysRows, adj),
            girlsRows |-> sortRowsAdj(base.girlsRows, adj)] :
             base \in {computeStandings(ms, guysList, girlsList)} })

(***************************************************************************)
(* SpecStandings: pool matches are scored, standings are computed          *)
(***************************************************************************)
\* pool matches in the list
MaxPool == 2

\* manual tiebreak values range over -MaxTie .. MaxTie
MaxTie == 1

\* the players of the pool matches: t1p1, t1p2, t2p1, t2p2 ("Zed" is on no roster)
PoolQuads ==
    << <<"Al", "Eve", "Bo", "Fay">>,
       <<"Al", "Fay", "Bo", "Eve">>,
       <<StrayName, "Eve", "Bo", "Fay">> >>

\* score texts typed into a pool match: 21-19, 19-21, 25-20, 21-20 (not won
\* by 2) and 21x19 (no score)
PoolScoreTexts ==
    { <<"2", "1", "-", "1", "9">>,
      <<"1", "9", "-", "2", "1">>,
      <<"2", "5", "-", "2", "0">>,
      <<"2", "1", "-", "2", "0">>,
      <<"2", "1", "x", "1", "9">> }

\* names whose manual tiebreak is edited
TieNames == {"Al", "Bo"}

PoolRow(k, q) ==
    [ id |-> <<k, 1, "n1">>, round |-> k, court |-> 1,
      t1p1 |-> q[1], t1p2 |-> q[2], t2p1 |-> q[3], t2p2 |-> q[4],
      tag |-> "null", scoreText |-> <<>> ]

InitStandings ==
    /\ \E k \in 1..MaxRoster :
          /\ guys = SubSeq(GuyNames, 1, k)
          /\ girls = SubSeq(GirlNames, 1, k)
    /\ \E pick \in [1..MaxPool -> 1..Len(PoolQuads)] :
          /\ \A i, j \in 1..MaxPool : i < j => pick[i] < pick[j]
          /\ matches = [k \in 1..MaxPool |-> PoolRow(k, PoolQuads[pick[k]])]
    /\ brackets = <<>>
    /\ tieAdjust = <<>>
    /\ call = NoCall
    /\ out = NoOut

\* MatchesView.update(id, {scoreText})
Update(id, text) ==
    /\ matches' = [k \in 1..Len(matches) |->
                      IF matches[k].id = id THEN [matches[k] EXCEPT !.scoreText = text]
                      ELSE matches[k]]
    /\ call' = [op |-> "update"]
    /\ out' = NoOut
    /\ UNCHANGED <<guys, girls, brackets, tieAdjust>>

\* setTieAdjust(prev => ({...prev, [name]: value}))
SetTieAdjust(name, v) ==
    /\ tieAdjust' = [n \in (DOMAIN tieAdjust) \cup {name} |->
                        IF n = name THEN v ELSE tieAdjust[n]]
    /\ call' = [op |-> "setTieAdjust"]
    /\ out' = NoOut
    /\ UNCHANGED <<guys, girls, matches, brackets>>

ComputeStandings ==
    /\ call' = [op |-> "computeStandings"]
    /\ out' = computeStandings(matches, guys, girls)
    /\ UNCHANGED <<guys, girls, matches, brackets, tieAdjust>>

ShowLeaderboard ==
    /\ call' = [op |-> "Leaderboard"]
    /\ out' = Leaderboard(matches, guys, girls)
    /\ UNCHANGED <<guys, girls, matches, brackets, tieAdjust>>

ShowLeaderboardAdj ==
    /\ call' = [op |-> "LeaderboardAdj"]
    /\ out' = LeaderboardAdj(matches, guys, girls, tieAdjust)
    /\ UNCHANGED <<guys, girls, matches, brackets, tieAdjust>>

ShowPlayoffRowsAdj ==
    /\ call' = [op |-> "PlayoffRowsAdj"]
    /\ out' = PlayoffRowsAdj(matches, guys, girls, tieAdjust)
    /\ UNCHANGED <<guys, girls, matches, brackets, tieAdjust>>

NextStandings ==
    \/ \E k \in 1..Len(matches), text \in PoolScoreTexts : Update(matches[k].id, text)
    \/ \E name \in TieNames, v \in (-MaxTie)..MaxTie : SetTieAdjust(name, v)
    \/ ComputeStandings
    \/ ShowLeaderboard
    \/ ShowLeaderboardAdj
    \/ ShowPlayoffRowsAdj

SpecStandings == InitStandings /\ [][NextStandings]_vars

(***************************************************************************)
(* Claims about the standings (checked under SpecStandings)                *)
(***************************************************************************)
\* the score text of pool match k parses as a-b with max(a,b) >= 21, |a-b| >= 2
ValidPool(k) ==
    LET s == parseScore(matches[k].scoreText)
    IN /\ s # NoParse
       /\ (s[1] >= 21 \/ s[2] >= 21)
       /\ (s[1] - s[2] >= 2 \/ s[2] - s[1] >= 2)

\* n is on the higher-scoring (won) or the lower-scoring (~won) team of match k
OnSide(k, n, won) ==
    LET s == parseScore(matches[k].scoreText)
        m == matches[k]
    IN /\ ValidPool(k)
       /\ \/ n \in {m.t1p1, m.t1p2} /\ (won <=> s[1] > s[2])
          \/ n \in {m.t2p1, m.t2p2} /\ (won <=> s[2] > s[1])

RECURSIVE PointDiffUpTo(_, _)
PointDiffUpTo(k, n) ==
    IF k = 0 THEN 0
    ELSE LET s == parseScore(matches[k].scoreText)
             d == Abs(s[1] - s[2])
         IN PointDiffUpTo(k - 1, n)
              + (IF OnSide(k, n, TRUE) THEN d ELSE IF OnSide(k, n, FALSE) THEN -d ELSE 0)

\* the record the fold over the valid matches gives player n
FoldRecord(n) ==
    [ name |-> n,
      W  |-> Cardinality({ k \in 1..Len(matches) : OnSide(k, n, TRUE) }),
      L  |-> Cardinality({ k \in 1..Len(matches) : OnSide(k, n, FALSE) }),
      PD |-> PointDiffUpTo(Len(matches), n) ]

RowsNamed(rows, n) == { i \in 1..Len(rows) : rows[i].name = n }

\* C5: computeStandings returns exactly one record per rostered name (guys in
\* the guys list, girls in the girls list) and that record is the fold over the
\* valid matches the player is in: +1 win and +|a-b| on the higher-scoring
\* team, +1 loss and -|a-b| on the lower; other matches change nothing, and a
\* player without a valid match stands at 0-0-0.
C5_StandingsFold ==
    call.op = "computeStandings" =>
        /\ \A n \in Range(guys) :
              /\ Cardinality(RowsNamed(out.guysRows, n)) = 1
              /\ RowsNamed(out.girlsRows, n) = {}
              /\ \A i \in RowsNamed(out.guysRows, n) : out.guysRows[i] = FoldRecord(n)
        /\ \A n \in Range(girls) :
              /\ Cardinality(RowsNamed(out.girlsRows, n)) = 1
              /\ RowsNamed(out.guysRows, n) = {}
              /\ \A i \in RowsNamed(out.girlsRows, n) : out.girlsRows[i] = FoldRecord(n)

\* standings computed with one valid match, one parseable but invalid match,
\* and a rostered player who won and a rostered player with no valid match
C5_Witness ==
    /\ call.op = "computeStandings"
    /\ \E k \in 1..Len(matches) : ValidPool(k)
    /\ \E k \in 1..Len(matches) :
          ~ValidPool(k) /\ parseScore(matches[k].scoreText) # NoParse
    /\ \E i \in 1..Len(out.guysRows) : out.guysRows[i].W = 1 /\ out.guysRows[i].PD = 5
    /\ \E i \in 1..Len(out.guysRows) :
          out.guysRows[i] = [name |-> "Cy", W |-> 0, L |-> 0, PD |-> 0]

\* x stands strictly before y: more wins, else more point differential, else
\* the lower tiebreak, else the earlier name
RankedBefore(x, y, adj) ==
    \/ x.W > y.W
    \/ x.W = y.W /\ x.PD > y.PD
    \/ x.W = y.W /\ x.PD = y.PD /\ tieOf(adj, x.name) < tieOf(adj, y.name)
    \/ /\ x.W = y.W /\ x.PD = y.PD /\ tieOf(adj, x.name) = tieOf(adj, y.name)
       /\ NameRank(x.name) < NameRank(y.name)

RankedList(rows, adj) ==
    \A i \in 1..(Len(rows) - 1) : RankedBefore(rows[i], rows[i + 1], adj)

\* C6: every ranked list (computeStandings, Leaderboard, and the two lists of
\* the variant with manual tiebreaks) is ordered by wins descending, point
\* differential descending, tiebreak ascending where supported, name ascending:
\* each row stands strictly before the next, so the order is determined.
C6_RankedOrder ==
    /\ call.op \in {"computeStandings", "Leaderboard"} =>
          RankedList(out.guysRows, <<>>) /\ RankedList(out.girlsRows, <<>>)
    /\ call.op \in {"LeaderboardAdj", "PlayoffRowsAdj"} =>
          RankedList(out.guysRows, tieAdjust) /\ RankedList(out.girlsRows, tieAdjust)

\* the adjusted playoff rows put Bo before Al on the manual tiebreak alone
C6_Witness ==
    /\ call.op = "PlayoffRowsAdj"
    /\ \E i \in 1..(Len(out.guysRows) - 1) :
          /\ out.guysRows[i].name = "Bo"
          /\ out.guysRows[i + 1].name = "Al"
          /\ out.guysRows[i].W = 1
          /\ out.guysRows[i + 1].W = 1
          /\ out.guysRows[i].PD = out.guysRows[i + 1].PD
          /\ tieOf(tieAdjust, "Bo") < tieOf(tieAdjust, "Al")

\* names of validly scored matches that are on neither roster
StrayPlayers ==
    { n \in UNION { {matches[k].t1p1, matches[k].t1p2, matches[k].t2p1, matches[k].t2p2} :
                      k \in { j \in 1..Len(matches) : ValidPool(j) } } :
        slug(n) \notin SlugSet(guys) \cup SlugSet(girls) }

\* C7 as stated: computeStandings tallies a player of a validly scored match
\* who is on neither roster into the guys list and never the girls list, and
\* returns the same two lists as the Leaderboard on the same matches and rosters.
C7_AsStated ==
    call.op = "computeStandings" =>
        /\ \A n \in StrayPlayers :
              RowsNamed(out.guysRows, n) # {} /\ RowsNamed(out.girlsRows, n) = {}
        /\ out = Leaderboard(matches, guys, girls)

RECURSIVE SumOf(_, _)
SumOf(rows, field) ==
    IF rows = <<>> THEN 0
    ELSE (CASE field = "W" -> Head(rows).W
            [] field = "L" -> Head(rows).L
            [] OTHER -> Head(rows).PD) + SumOf(Tail(rows), field)

StandingsShown ==
    call.op \in {"computeStandings", "Leaderboard", "LeaderboardAdj", "PlayoffRowsAdj"}

\* C27: over the guys and girls standings lists combined, the wins total
\* equals the losses total equals twice the number of validly scored matches,
\* and the point differentials sum to zero.
C27_TotalsBalance ==
    StandingsShown =>
        LET rows == out.guysRows \o out.girlsRows
            valid == Cardinality({ k \in 1..Len(matches) : ValidPool(k) })
        IN /\ SumOf(rows, "W") = 2 * valid
           /\ SumOf(rows, "L") = 2 * valid
           /\ SumOf(rows, "PD") = 0

\* standings over two valid matches, one lost by a player on no roster, with
\* rows of non-zero differential
C27_Witness ==
    /\ call.op = "computeStandings"
    /\ \A k \in 1..Len(matches) : ValidPool(k)
    /\ \E k \in 1..Len(matches) : matches[k].t1p1 = StrayName
    /\ SumOf(out.guysRows \o out.girlsRows, "W") = 4
    /\ \E i \in 1..Len(out.girlsRows) : out.girlsRows[i].PD < 0

(***************************************************************************)
(* PlayoffBuilder.build / onBuild and BracketView.onScore                  *)
(***************************************************************************)
\* Array.prototype.slice(start, end) with 0-based bounds
SliceJS(s, start, end) == SubSeq(s, Min2(start, Len(s)) + 1, Min2(end, Len(s)))

\* Map(rows.map(r => [r.name, r])).get(name): the last row of that name, else 0-0
StatOf(guysRows, girlsRows, n) ==
    LET gi == { i \in 1..Len(guysRows) : guysRows[i].name = n }
        hi == { i \in 1..Len(girlsRows) : girlsRows[i].name = n }
    IN IF gi # {} THEN guysRows[CHOOSE i \in gi : \A j \in gi : j <= i]
       ELSE IF hi # {} THEN girlsRows[CHOOSE i \in hi : \A j \in hi : j <= i]
       ELSE [name |-> n, W |-> 0, L |-> 0, PD |-> 0]

\* score(t): the combined wins and point differential of the two members
teamScore(guysRows, girlsRows, t) ==
    LET aS == StatOf(guysRows, girlsRows, t.members[1])
        bS == StatOf(guysRows, girlsRows, t.members[2])
    IN [W |-> aS.W + bS.W, PD |-> aS.PD + bS.PD]

\* A.name.localeCompare(B.name) for names `${guy} & ${girl}`
teamNameCompare(A, B) ==
    IF localeCompare(A.members[1], B.members[1]) # 0
    THEN localeCompare(A.members[1], B.members[1])
    ELSE localeCompare(A.members[2], B.members[2])

compareTeams(guysRows, girlsRows, A, B) ==
    LET sA == teamScore(guysRows, girlsRows, A)
        sB == teamScore(guysRows, girlsRows, B)
    IN IF sB.W - sA.W # 0 THEN sB.W - sA.W
       ELSE IF sB.PD - sA.PD # 0 THEN sB.PD - sA.PD
       ELSE teamNameCompare(A, B)

RECURSIVE InsertTeam(_, _, _, _)
InsertTeam(sorted, t, guysRows, girlsRows) ==
    IF sorted = <<>> THEN <<t>>
    ELSE IF compareTeams(guysRows, girlsRows, t, Head(sorted)) < 0 THEN <<t>> \o sorted
    ELSE <<Head(sorted)>> \o InsertTeam(Tail(sorted), t, guysRows, girlsRows)

RECURSIVE SortTeams(_, _, _, _)
SortTeams(done, teams, guysRows, girlsRows) ==
    IF teams = <<>> THEN done
    ELSE Only({ SortTeams(d, Tail(teams), guysRows, girlsRows) :
                  d \in {InsertTeam(done, Head(teams), guysRows, girlsRows)} })

\* mutation: the girls of the slice are shuffled as one window
BuildWindows_OneWindow(div, g, h, K, winSize, base, w, seedRandom, winSeeds) ==
    IF K <= 0 THEN <<>>
    ELSE Only({ [x \in 1..K |->
                   [ name     |-> g[x].name \o " & " \o girlsShuffled[x].name,
                     members  |-> <<g[x].name, girlsShuffled[x].name>>,
                     seed     |-> x,
                     division |-> div ]] :
                girlsShuffled \in { IF seedRandom THEN shuffle(SliceJS(h, 0, K), winSeeds[1])
                                    ELSE SliceJS(h, 0, K) } })

\* the windows of build from 0-based position base on; winSeeds[w] is the seed
\* the unseeded shuffle of window w runs with
RECURSIVE BuildWindows(_, _, _, _, _, _, _, _, _)
BuildWindows(div, g, h, K, winSize, base, w, seedRandom, winSeeds) ==
    IF base >= K THEN <<>>
    ELSE LET end == Min2(base + winSize, K)
             girlsWindow == SliceJS(h, base, end)
         IN Only({ [x \in 1..(end - base) |->
                      [ name     |-> g[base + x].name \o " & " \o girlsShuffled[x].name,
                        members  |-> <<g[base + x].name, girlsShuffled[x].name>>,
                        seed     |-> base + x,
                        division |-> div ]]
                   \o BuildWindows(div, g, h, K, winSize, end, w + 1, seedRandom, winSeeds) :
                     girlsShuffled \in { IF seedRandom THEN shuffle(girlsWindow, winSeeds[w])
                                         ELSE girlsWindow } })

\* build(div, guySlice, girlSlice): pair, sort by combined record, reseed 1..n
build(div, guysRows, girlsRows, gStart, gEnd, hStart, hEnd, seedRandom, groupSize, winSeeds) ==
    LET g == SliceJS(guysRows, gStart, gEnd)
        h == SliceJS(girlsRows, hStart, hEnd)
        K == Min2(Len(g), Len(h))
    IN Only({ [i \in 1..Len(sorted) |-> [sorted[i] EXCEPT !.seed = i]] :
                sorted \in { SortTeams(<<>>,
                                       BuildWindows(div, g, h, K, Max2(2, groupSize), 0, 1,
                                                    seedRandom, winSeeds),
                                       guysRows, girlsRows) } })

\* mutation: the score is stored but nobody advances
onScore_NoAdvance(prev, id, score) ==
    LET i == IndexOfId(prev, id)
    IN IF i = 0 THEN prev ELSE [prev EXCEPT ![i].score = score]

\* mutation: the winner is moved, not copied: its slot in the scored match
\* is cleared
onScore_MovesWinner(prev, id, score) ==
    LET i == IndexOfId(prev, id)
        parsed == parseScoreLoose(score)
        m == prev[i]
        p == IndexOfId(prev, m.nextId)
        stored == [prev EXCEPT ![i].score = score]
    IN IF i = 0 THEN prev
       ELSE IF parsed = NoParse \/ parsed[1] = parsed[2] \/ p = 0 THEN stored
       ELSE IF parsed[1] > parsed[2]
       THEN IF m.nextSide = "team1"
            THEN [stored EXCEPT ![p].team1 = m.team1, ![i].team1 = NoTeam]
            ELSE [stored EXCEPT ![p].team2 = m.team1, ![i].team1 = NoTeam]
       ELSE IF m.nextSide = "team1"
            THEN [stored EXCEPT ![p].team1 = m.team2, ![i].team2 = NoTeam]
            ELSE [stored EXCEPT ![p].team2 = m.team2, ![i].team2 = NoTeam]

\* BracketView.onScore(id, score) applied to the list prev
onScore(prev, id, score) ==
    LET i == IndexOfId(prev, id)
        m == [prev[i] EXCEPT !.score = score]
        copy == [prev EXCEPT ![i] = m]
        parsed == parseScoreLoose(score)
        a == parsed[1]
        b == parsed[2]
        winner == IF a > b THEN m.team1 ELSE IF a < b THEN m.team2 ELSE NoTeam
        loser == IF a > b THEN m.team2 ELSE IF a < b THEN m.team1 ELSE NoTeam
        p == IndexOfId(copy, m.nextId)
        won == IF winner # NoTeam /\ m.nextId # NoId /\ m.nextSide # "none" /\ p # 0
               THEN IF m.nextSide = "team1" THEN [copy EXCEPT ![p].team1 = winner]
                    ELSE [copy EXCEPT ![p].team2 = winner]
               ELSE copy
        q == IndexOfId(won, m.loserNextId)
    IN IF i = 0 THEN prev
       ELSE IF parsed = NoParse THEN copy
       ELSE IF loser # NoTeam /\ m.loserNextId # NoId /\ m.loserNextSide # "none" /\ q # 0
            THEN IF m.loserNextSide = "team1" THEN [won EXCEPT ![q].team1 = loser]
                 ELSE [won EXCEPT ![q].team2 = loser]
       ELSE won

\* the score box of a bracket match is rendered only when both teams are set
canScore(m) == m.team1 # NoTeam /\ m.team2 # NoTeam

(***************************************************************************)
(* PlayoffBuilder.buildCombinedRR (first build) and its second-build form  *)
(***************************************************************************)
\* the filter `decided`: positions of prev, in order, of the UPPER/LOWER
\* matches of round 1 or 2 with both teams and a non-blank score string
decidedOf(prev) ==
    LET keep(i) == /\ prev[i].division \in {"UPPER", "LOWER"}
                   /\ prev[i].round \in {1, 2}
                   /\ prev[i].team1 # NoTeam
                   /\ prev[i].team2 # NoTeam
                   /\ prev[i].score # UndefScore
                   /\ Trim(prev[i].score) # <<>>
    IN SelectSeq([i \in 1..Len(prev) |-> i], LAMBDA i : keep(i))

\* main.find(x => x.id === id): the first UPPER/LOWER match of that id, 0 if none
FindMain(cur, id) ==
    LET hits == { i \in 1..Len(cur) : cur[i].division \in {"UPPER", "LOWER"} /\ cur[i].id = id }
    IN IF hits = {} THEN 0 ELSE CHOOSE i \in hits : \A j \in hits : i <= j

\* the Team pushed onto losers for a losing team
carry(loser, k) ==
    [name |-> loser.name, members |-> loser.members, seed |-> k, division |-> "RR"]

\* parent.team1 / parent.team2 = winner on the objects of prev
advanceInMain(cur, m, winner) ==
    LET p == FindMain(cur, m.nextId)
    IN IF winner = NoTeam \/ m.nextId = NoId \/ m.nextSide = "none" \/ p = 0 THEN cur
       ELSE IF m.nextSide = "team1" THEN [cur EXCEPT ![p].team1 = winner]
       ELSE [cur EXCEPT ![p].team2 = winner]

\* `for (const m of decided)` of the first build: loose parse, a tie has
\* neither winner nor loser
RECURSIVE rrLoop(_, _, _)
rrLoop(cur, decided, losers) ==
    IF decided = <<>> THEN [cur |-> cur, losers |-> losers]
    ELSE LET m == cur[Head(decided)]
             parsed == parseScoreLoose(m.score)
             a == parsed[1]
             b == parsed[2]
             winner == IF a > b THEN m.team1 ELSE IF a < b THEN m.team2 ELSE NoTeam
             loser == IF a > b THEN m.team2 ELSE IF a < b THEN m.team1 ELSE NoTeam
             losers2 == IF loser # NoTeam THEN Append(losers, carry(loser, Len(losers) + 1))
                        ELSE losers
         IN IF parsed = NoParse THEN rrLoop(cur, Tail(decided), losers)
            ELSE Only({ rrLoop(nx[1], Tail(decided), nx[2]) :
                          nx \in {<<advanceInMain(cur, m, winner), losers2>>} })

\* the same loop in the second build: strict parse, winner = a > b ? team1 : team2
RECURSIVE rrLoop2(_, _, _)
rrLoop2(cur, decided, losers) ==
    IF decided = <<>> THEN [cur |-> cur, losers |-> losers]
    ELSE LET m == cur[Head(decided)]
             ps == parseScore(m.score)
             a == ps[1]
             b == ps[2]
             winner == IF a > b THEN m.team1 ELSE m.team2
             loser == IF a > b THEN m.team2 ELSE m.team1
             losers2 == IF loser # NoTeam THEN Append(losers, carry(loser, Len(losers) + 1))
                        ELSE losers
         IN IF ps = NoParse THEN rrLoop2(cur, Tail(decided), losers)
            ELSE Only({ rrLoop2(nx[1], Tail(decided), nx[2]) :
                          nx \in {<<advanceInMain(cur, m, winner), losers2>>} })

\* uniq(losers.flatMap(t => t.members)).filter(Boolean)
RECURSIVE uniqNames(_, _)
uniqNames(seen, names) ==
    IF names = <<>> THEN seen
    ELSE IF Head(names) = "" \/ Head(names) \in Range(seen) THEN uniqNames(seen, Tail(names))
    ELSE uniqNames(Append(seen, Head(names)), Tail(names))

RECURSIVE flatMembers(_)
flatMembers(teams) ==
    IF teams = <<>> THEN <<>> ELSE Head(teams).members \o flatMembers(Tail(teams))

\* mutation: without re-randomization the losers are entered twice
rrTeamsOf_Twice(losers, rrRandomize, seed) == losers \o losers

\* rrTeams: the losers as collected, or their members reshuffled and re-paired
rrTeamsOf(losers, rrRandomize, seed) ==
    IF ~rrRandomize THEN losers
    ELSE LET shuffled == shuffle(uniqNames(<<>>, flatMembers(losers)), seed)
         IN [k \in 1..(Len(shuffled) \div 2) |->
               [ name     |-> shuffled[2 * k - 1] \o " & " \o shuffled[2 * k],
                 members  |-> <<shuffled[2 * k - 1], shuffled[2 * k]>>,
                 seed     |-> k,
                 division |-> "RR" ]]

\* the second build's loop over round 1: advance and hide the bye-eligible
\* lone teams only
RECURSIVE AutoAdvance2(_, _, _)
AutoAdvance2(ms, i, byes) ==
    IF i > Len(ms) THEN ms
    ELSE LET m  == ms[i]
             t1 == m.team1
             t2 == m.team2
             lone == IF t1 # NoTeam /\ t2 = NoTeam /\ t1.seed \in byes THEN t1
                     ELSE IF t2 # NoTeam /\ t1 = NoTeam /\ t2.seed \in byes THEN t2
                     ELSE NoTeam
             adv == advanceWinner(ms, m, lone)
         IN IF m.round = 1 /\ lone # NoTeam
            THEN AutoAdvance2([adv EXCEPT ![i].score = BYE, ![i].team1 = NoTeam,
                                          ![i].team2 = NoTeam], i + 1, byes)
            ELSE AutoAdvance2(ms, i + 1, byes)

\* the second build's espnOrder: each seed s of the half order, then n + 1 - s
RECURSIVE EspnEmit2(_, _)
EspnEmit2(prev, n) ==
    IF prev = <<>> THEN <<>>
    ELSE <<Head(prev), n + 1 - Head(prev)>> \o EspnEmit2(Tail(prev), n)

RECURSIVE espnOrder2(_)
espnOrder2(n) ==
    IF n = 1 THEN <<1>>
    ELSE IF n = 2 THEN <<1, 2>>
    ELSE EspnEmit2(espnOrder2(n \div 2), n)

buildBracket2(division, teams, topSeedByeCount) ==
    LET N == Len(teams)
    IN IF N = 0 THEN <<>>
       ELSE LET size  == nextPow2(N)
                order == espnOrder2(size)
                slots == SlotsOf(teams, order)
                built == ParentRounds(division, RoundOne(division, slots, size), 1)
            IN AutoAdvance2(built, 1, byeSeeds(size, N, topSeedByeCount))

\* buildCombinedRR applied to prev: locals kept beside the new list
buildCombinedRR(prev, rrRandomize, seed) ==
    LET decided == decidedOf(prev)
    IN Only({ Only({ [ brackets |-> SelectSeq(looped.cur, LAMBDA m : m.division # "RR")
                                      \o buildBracket("RR", rrTeams, 0),
                       decided |-> [k \in 1..Len(decided) |-> prev[decided[k]].id],
                       losers |-> looped.losers,
                       rrTeams |-> rrTeams ] :
                     rrTeams \in {rrTeamsOf(looped.losers, rrRandomize, seed)} }) :
              looped \in {rrLoop(prev, decided, <<>>)} })

buildCombinedRR2(prev, rrRandomize, seed) ==
    LET decided == decidedOf(prev)
    IN Only({ Only({ [ brackets |-> SelectSeq(looped.cur, LAMBDA m : m.division # "RR")
                                      \o buildBracket2("RR", rrTeams, 0),
                       decided |-> [k \in 1..Len(decided) |-> prev[decided[k]].id],
                       losers |-> looped.losers,
                       rrTeams |-> rrTeams ] :
                     rrTeams \in {rrTeamsOf(looped.losers, rrRandomize, seed)} }) :
              looped \in {rrLoop2(prev, decided, <<>>)} })

(***************************************************************************)
(* SpecBracket: playoffs built from the standings, scored, RR built        *)
(***************************************************************************)
\* players per roster when the playoffs are built
BracketRoster == 6

\* bracket matches holding an entered score at any one time
MaxScored == 4

\* values of the "upper size" box
UpperKs == {3, 5}

\* values of the two bye boxes
ByeChoices == {0, 2}

\* score texts typed into a bracket match: 2-1, 1-2, 1-1 and x
BracketScoreTexts ==
    { <<"2", "-", "1">>, <<"1", "-", "2">>, <<"1", "-", "1">>, <<"x">> }

\* the value Math.random() * 1e9 takes in the unseeded shuffles of the playoffs
BuildSeeds == {144272509}

InitBracket ==
    /\ guys = SubSeq(GuyNames, 1, BracketRoster)
    /\ girls = SubSeq(GirlNames, 1, BracketRoster)
    /\ matches = << [ PoolRow(1, <<"Cy", "Gia", "Al", "Eve">>)
                        EXCEPT !.scoreText = <<"2", "5", "-", "2", "0">> ] >>
    /\ brackets = <<>>
    /\ tieAdjust = <<>>
    /\ call = NoCall
    /\ out = NoOut

\* number of windows build makes over K pairs
WindowCount(K, groupSize) == (K + Max2(2, groupSize) - 1) \div Max2(2, groupSize)

\* mutation: the rebuild keeps the Redemption Rally matches of the old list
onBuildList_KeepRally(prev, upperMain, lowerMain) ==
    upperMain \o lowerMain \o SelectSeq(prev, LAMBDA m : m.division = "RR")

\* setBrackets([...upperMain, ...lowerMain]): the new state value, prev unused
onBuildList(prev, upperMain, lowerMain) == upperMain \o lowerMain

\* PlayoffBuilder.onBuild: standings, the two team lists, the two brackets;
\* `out` keeps the two team lists and the list the handler replaced
OnBuildOver(upperK, seedRandom, groupSize, byeUpper, byeLower) ==
    \E rows \in {computeStandings(matches, guys, girls)} :
       LET gN == Len(rows.guysRows)
           hN == Len(rows.girlsRows)
           draws == IF seedRandom THEN BuildSeeds ELSE {0}
       IN \E uSeeds \in [1..WindowCount(Min2(upperK, Min2(gN, hN)), groupSize) -> draws],
             lSeeds \in [1..WindowCount(Min2(gN, hN) - Min2(upperK, Min2(gN, hN)), groupSize)
                           -> draws] :
          \E upperTeams \in { build("UPPER", rows.guysRows, rows.girlsRows, 0, upperK, 0,
                                    upperK, seedRandom, groupSize, uSeeds) },
             lowerTeams \in { build("LOWER", rows.guysRows, rows.girlsRows, upperK, gN,
                                    upperK, hN, seedRandom, groupSize, lSeeds) } :
             /\ brackets' = onBuildList(brackets, buildBracket("UPPER", upperTeams, byeUpper),
                                        buildBracket("LOWER", lowerTeams, byeLower))
             /\ call' = [op |-> "onBuild", upperK |-> upperK, seedRandom |-> seedRandom,
                         byeUpper |-> byeUpper, byeLower |-> byeLower]
             /\ out' = [op |-> "onBuild", upperTeams |-> upperTeams,
                        lowerTeams |-> lowerTeams, prev |-> brackets]
             /\ UNCHANGED <<guys, girls, matches, tieAdjust>>

\* The handler replaces the bracket list whatever it held, so the list it
\* builds over an existing one is the list it builds over the empty one: where
\* rebuilds are not the subject only the latter build is explored.
OnBuild(upperK, seedRandom, groupSize, byeUpper, byeLower) ==
    /\ brackets = <<>>
    /\ OnBuildOver(upperK, seedRandom, groupSize, byeUpper, byeLower)

\* matches whose score field holds an entered text
Scored(list) ==
    { i \in 1..Len(list) : list[i].score # UndefScore /\ list[i].score # BYE }

\* typing into the score box of match k
OnScore(k, score) ==
    /\ k \in 1..Len(brackets)
    /\ canScore(brackets[k])
    /\ k \in Scored(brackets) \/ Cardinality(Scored(brackets)) < MaxScored
    /\ brackets' = onScore(brackets, brackets[k].id, score)
    /\ call' = [op |-> "onScore", id |-> brackets[k].id, score |-> score]
    /\ out' = [op |-> "onScore"]
    /\ UNCHANGED <<guys, girls, matches, tieAdjust>>

\* the "Build Redemption Rally" button of the first build
BuildCombinedRR(rrRandomize) ==
    /\ brackets # <<>>
    /\ \E seed \in (IF rrRandomize THEN BuildSeeds ELSE {0}) :
          \E r \in {buildCombinedRR(brackets, rrRandomize, seed)} :
             /\ brackets' = r.brackets
             /\ out' = [op |-> "buildCombinedRR", prev |-> brackets, decided |-> r.decided,
                        losers |-> r.losers, rrTeams |-> r.rrTeams]
    /\ call' = [op |-> "buildCombinedRR", rrRandomize |-> rrRandomize]
    /\ UNCHANGED <<guys, girls, matches, tieAdjust>>

\* the same button in the second build (its onBuild and onScore produce the
\* same lists as the first build's for brackets of up to eight teams)
BuildCombinedRR2(rrRandomize) ==
    /\ brackets # <<>>
    /\ \E seed \in (IF rrRandomize THEN BuildSeeds ELSE {0}) :
          \E r \in {buildCombinedRR2(brackets, rrRandomize, seed)} :
             /\ brackets' = r.brackets
             /\ out' = [op |-> "buildCombinedRR2", prev |-> brackets, decided |-> r.decided,
                        losers |-> r.losers, rrTeams |-> r.rrTeams]
    /\ call' = [op |-> "buildCombinedRR2", rrRandomize |-> rrRandomize]
    /\ UNCHANGED <<guys, girls, matches, tieAdjust>>

NextBracket ==
    \/ \E upperK \in UpperKs, seedRandom \in BOOLEAN, byeUpper \in ByeChoices,
          byeLower \in ByeChoices :
          OnBuild(upperK, seedRandom, 4, byeUpper, byeLower)
    \/ \E k \in 1..Len(brackets), score \in BracketScoreTexts : OnScore(k, score)

SpecBracket == InitBracket /\ [][NextBracket]_vars

(***************************************************************************)
(* SpecScoreBox: the same playoffs, the score box also erased              *)
(***************************************************************************)
\* what onChange hands to onScore: a typed text, or the empty text once the
\* box is cleared
ScoreBoxTexts == BracketScoreTexts \cup {<<>>}

NextScoreBox ==
    \/ \E upperK \in UpperKs, seedRandom \in BOOLEAN, byeUpper \in ByeChoices,
          byeLower \in ByeChoices :
          OnBuild(upperK, seedRandom, 4, byeUpper, byeLower)
    \/ \E k \in 1..Len(brackets), score \in ScoreBoxTexts : OnScore(k, score)

SpecScoreBox == InitBracket /\ [][NextScoreBox]_vars

(***************************************************************************)
(* SpecRally: the same playoffs with the Redemption Rally built            *)
(***************************************************************************)
NoRally == \A i \in 1..Len(brackets) : brackets[i].division # "RR"

\* the Redemption Rally is built from every state of the scored brackets; score
\* entries are explored up to the first build of the rally
NextRally ==
    \/ \E upperK \in UpperKs, seedRandom \in BOOLEAN, byeUpper \in ByeChoices,
          byeLower \in ByeChoices :
          OnBuild(upperK, seedRandom, 4, byeUpper, byeLower)
    \/ \E k \in 1..Len(brackets), score \in BracketScoreTexts :
          NoRally /\ OnScore(k, score)
    \/ \E rrRandomize \in BOOLEAN : BuildCombinedRR(rrRandomize)
    \/ \E rrRandomize \in BOOLEAN : BuildCombinedRR2(rrRandomize)

SpecRally == InitBracket /\ [][NextRally]_vars

(***************************************************************************)
(* SpecRebuild: playoffs scored, the rally built, the playoffs built again  *)
(***************************************************************************)
\* bracket matches holding an entered score when the playoffs are rebuilt
MaxRebuildScored == 2

\* the bye boxes are left at 0 here
NextRebuild ==
    \/ \E upperK \in UpperKs, seedRandom \in BOOLEAN :
          OnBuildOver(upperK, seedRandom, 4, 0, 0)
    \/ \E k \in 1..Len(brackets), score \in BracketScoreTexts :
          /\ NoRally
          /\ Cardinality(Scored(brackets) \cup {k}) <= MaxRebuildScored
          /\ OnScore(k, score)
    \/ \E rrRandomize \in BOOLEAN : BuildCombinedRR(rrRandomize)

SpecRebuild == InitBracket /\ [][NextRebuild]_vars

(***************************************************************************)
(* Claims about score entry and the Redemption Rally                       *)
(***************************************************************************)
\* the team in the side slot of match p of list
SlotOf(list, p, side) == IF side = "team1" THEN list[p].team1 ELSE list[p].team2

\* the entered text parses as A-B with A # B
Decisive(score) ==
    parseScoreLoose(score) # NoParse /\ parseScoreLoose(score)[1] # parseScoreLoose(score)[2]

\* C1: whatever scores were entered before, entering a text that parses as A-B
\* with A # B into a match with both teams and a forward pointer stores the
\* text as the match's score and writes team1 (A > B) or team2 (A < B) into
\* the nextSide slot of the match named nextId.
C1_ScoreAdvances ==
    [][ call'.op = "onScore" =>
          LET k == IndexOfId(brackets, call'.id)
              m == brackets[k]
              ab == parseScoreLoose(call'.score)
              p == IndexOfId(brackets', m.nextId)
          IN ( /\ canScore(m)
               /\ m.nextId # NoId
               /\ m.nextSide # "none"
               /\ Decisive(call'.score) )
             => /\ p # 0
                /\ brackets'[k].score = call'.score
                /\ SlotOf(brackets', p, m.nextSide)
                     = (IF ab[1] > ab[2] THEN m.team1 ELSE m.team2) ]_vars

\* a round-2 match scored 1-2 after two other entries: its team2 stands in the
\* slot of the next match
C1_Witness ==
    /\ call.op = "onScore"
    /\ call.score = <<"1", "-", "2">>
    /\ Cardinality(Scored(brackets)) >= 3
    /\ LET m == brackets[IndexOfId(brackets, call.id)]
       IN /\ m.round = 2
          /\ m.nextId # NoId
          /\ m.score = call.score
          /\ m.team2 # NoTeam
          /\ SlotOf(brackets, IndexOfId(brackets, m.nextId), m.nextSide) = m.team2

\* positions of the list whose match is an UPPER/LOWER match of round 1 or 2
\* with both teams and a parseable score with unequal sides
DecisiveMain(list) ==
    SelectSeq([i \in 1..Len(list) |-> i],
              LAMBDA i : /\ list[i].division \in {"UPPER", "LOWER"}
                         /\ list[i].round \in {1, 2}
                         /\ list[i].team1 # NoTeam
                         /\ list[i].team2 # NoTeam
                         /\ list[i].score # UndefScore
                         /\ Decisive(list[i].score))

\* the team with the lower number in a decisive match
LowerTeam(m) ==
    IF parseScoreLoose(m.score)[1] > parseScoreLoose(m.score)[2] THEN m.team2 ELSE m.team1

\* C10 as stated: building the Redemption Rally collects one losing team, the
\* team with the lower number, from exactly the UPPER/LOWER matches of round 1
\* or 2 that have both teams and a parseable score with unequal sides, and
\* none from any other match; without re-randomization each RR team has the
\* members of one collected losing team.
C10_AsStated ==
    call.op \in {"buildCombinedRR", "buildCombinedRR2"} =>
        LET from == DecisiveMain(out.prev)
        IN /\ Len(out.losers) = Len(from)
           /\ \A k \in 1..Len(from) :
                 out.losers[k].members = LowerTeam(out.prev[from[k]]).members
           /\ ~call.rrRandomize =>
                 \A t \in Range(out.rrTeams) :
                    \E l \in Range(out.losers) : l.members = t.members

\* the same statement of the first build alone
C10_FirstBuild == call.op = "buildCombinedRR2" \/ C10_AsStated

\* the pairing C24 describes, for the teams built from the slices g and h of
\* the two rankings with window size W: j and i are 0-based ranks in the slice
WindowPaired(teams, g, h, W, random) ==
    LET K == Min2(Len(g), Len(h))
        lo(j) == W * (j \div W)
        teamsOfGuy(j) == { t \in 1..Len(teams) : teams[t].members[1] = g[j + 1].name }
        teamsOfGirl(i) == { t \in 1..Len(teams) : teams[t].members[2] = h[i + 1].name }
    IN /\ Len(teams) = K
       /\ \A j \in 0..(K - 1) :
             /\ Cardinality(teamsOfGuy(j)) = 1
             /\ \E i \in lo(j)..(Min2(lo(j) + W, K) - 1) :
                    /\ teamsOfGuy(j) = teamsOfGirl(i)
                    /\ (~random => i = j)
       /\ \A i \in 0..(K - 1) : Cardinality(teamsOfGirl(i)) = 1

\* C24: in the Playoff Team Builder the team of the guy at rank j of a division
\* slice has a girl of the same window [W*floor(j/W), min(W*floor(j/W)+W, K))
\* of the girls' slice, W = max(2, windowSize); each of the first K girls is in
\* exactly one team; with randomization off guy j is paired with girl j.
C24_WindowPairing ==
    call.op = "onBuild" =>
        LET rows == computeStandings(matches, guys, girls)
            gN == Len(rows.guysRows)
            hN == Len(rows.girlsRows)
        IN /\ WindowPaired(out.upperTeams, SliceJS(rows.guysRows, 0, call.upperK),
                           SliceJS(rows.girlsRows, 0, call.upperK), 4, call.seedRandom)
           /\ WindowPaired(out.lowerTeams, SliceJS(rows.guysRows, call.upperK, gN),
                           SliceJS(rows.girlsRows, call.upperK, hN), 4, call.seedRandom)

\* an upper division of five teams built with randomization: a guy of the
\* first window has a girl of another rank of that window, and the fifth guy,
\* alone in the second window, has the fifth girl
C24_Witness ==
    /\ call.op = "onBuild"
    /\ call.seedRandom
    /\ Len(out.upperTeams) = 5
    /\ LET rows == computeStandings(matches, guys, girls)
       IN /\ \E t \in 1..5, j \in 1..4, i \in 1..4 :
                /\ i # j
                /\ out.upperTeams[t].members
                     = <<rows.guysRows[j].name, rows.girlsRows[i].name>>
          /\ \E t \in 1..5 :
                out.upperTeams[t].members
                  = <<rows.guysRows[5].name, rows.girlsRows[5].name>>

\* the winner the current score of match c names: NoTeam when the score is
\* absent, unparseable or a tie
WinnerNow(c) ==
    IF ~Decisive(c.score) THEN NoTeam
    ELSE IF parseScoreLoose(c.score)[1] > parseScoreLoose(c.score)[2] THEN c.team1
    ELSE c.team2

\* child c feeds a slot of a later match, and that slot holds a team
FedSlotHeld(c) ==
    /\ c.nextId # NoId
    /\ c.nextSide # "none"
    /\ c.score # BYE
    /\ IndexOfId(brackets, c.nextId) # 0
    /\ SlotOf(brackets, IndexOfId(brackets, c.nextId), c.nextSide) # NoTeam

\* C18 as stated: after any sequence of score entries (reversals, ties,
\* unparseable texts included) every team in a slot fed by a child match is
\* the winner of that child by the child's current score.
C18_AsStated ==
    \A k \in 1..Len(brackets) :
        FedSlotHeld(brackets[k]) =>
            SlotOf(brackets, IndexOfId(brackets, brackets[k].nextId), brackets[k].nextSide)
                = WinnerNow(brackets[k])

(***************************************************************************)
(* Claims about the Redemption Rally bracket                               *)
(***************************************************************************)
RallyBuilt == call.op \in {"buildCombinedRR", "buildCombinedRR2"}

\* the RR matches of the bracket list
RallyMatches == SelectSeq(brackets, LAMBDA m : m.division = "RR")

\* seeds of the RR teams standing in a round-2 slot
RallyRoundTwoSeeds ==
    { m.team1.seed : m \in { x \in Range(RallyMatches) : x.round = 2 /\ x.team1 # NoTeam } }
      \cup
    { m.team2.seed : m \in { x \in Range(RallyMatches) : x.round = 2 /\ x.team2 # NoTeam } }

RallyByeMarks == { m \in Range(RallyMatches) : m.round = 1 /\ m.score = BYE }

\* C11 as stated: however many losing teams were collected, no RR team stands
\* in round 2 without having played and no RR round-1 match carries BYE.
C11_AsStated ==
    RallyBuilt => RallyRoundTwoSeeds = {} /\ RallyByeMarks = {}

\* C11, what the build does: the requested bye count is 0, so
\* its byes are the structural ones only: the RR teams standing in round 2
\* after the build are exactly the seeds 1..min(bracketSize - N, 5), and when
\* N >= 2 is a power of two no RR round-1 match carries BYE.
C11_StructuralByesOnly ==
    RallyBuilt =>
        LET N == Len(out.rrTeams)
            size == nextPow2(N)
        IN /\ N = 0 => RallyMatches = <<>>
           /\ N >= 1 => RallyRoundTwoSeeds = 1..Min2(size - N, 5)
           /\ (N >= 2 /\ size = N) => RallyByeMarks = {}

\* three losing teams were collected: RR seed 1 stands in round 2 on the one
\* structural bye
C11_Witness ==
    /\ RallyBuilt
    /\ Len(out.rrTeams) = 3
    /\ RallyRoundTwoSeeds = {1}
    /\ Cardinality(RallyByeMarks) = 1

\* the states of a match: Unscored covers Empty, OneSlotFilled and BothFilled
Unscored(c) == Falsy(c.score)

\* C20 as stated, its two state parts: every match with a score other than
\* the BYE sentinel has both slots filled, and a match whose winner has been
\* written to its parent is never back in an unscored state.
C20_AsStated ==
    \A k \in 1..Len(brackets) :
        /\ (~Unscored(brackets[k]) /\ brackets[k].score # BYE => canScore(brackets[k]))
        /\ (FedSlotHeld(brackets[k]) => ~Unscored(brackets[k]))

\* the parts of C20 that score entry keeps: a score entry clears no team slot
\* and leaves every match but the one typed into with its score
C20_SlotsNeverEmptied ==
    [][ call'.op = "onScore" =>
          /\ Len(brackets') = Len(brackets)
          /\ \A k \in 1..Len(brackets) :
                 /\ (brackets[k].team1 # NoTeam => brackets'[k].team1 # NoTeam)
                 /\ (brackets[k].team2 # NoTeam => brackets'[k].team2 # NoTeam)
                 /\ (brackets[k].id # call'.id => brackets'[k].score = brackets[k].score) ]_vars

\* and every match holding an entered text has both teams
C20_ScoredHasBothTeams ==
    \A k \in 1..Len(brackets) :
        (~Unscored(brackets[k]) /\ brackets[k].score # BYE) => canScore(brackets[k])

RallySlots ==
    { ks \in (1..Len(brackets)) \X {"team1", "team2"} :
        brackets[ks[1]].division = "RR" /\ SlotOf(brackets, ks[1], ks[2]) # NoTeam }

\* C28: after any sequence of score entries and a Redemption Rally build with
\* partner re-randomization off, no team and no player is in more than one
\* team of the rally: the teams entered have distinct names and disjoint
\* members, and two slots of the RR bracket hold teams with no common player.
C28_RallyTeamsDisjoint ==
    (RallyBuilt /\ ~call.rrRandomize) =>
        /\ \A i, j \in 1..Len(out.rrTeams) :
              i # j => /\ out.rrTeams[i].name # out.rrTeams[j].name
                       /\ Range(out.rrTeams[i].members)
                            \cap Range(out.rrTeams[j].members) = {}
        /\ \A x, y \in RallySlots :
              x # y => Range(SlotOf(brackets, x[1], x[2]).members)
                         \cap Range(SlotOf(brackets, y[1], y[2]).members) = {}

\* a rally built without re-randomization from a round-1 match and the round-2
\* match its winner went to, both decided, the round-2 loser being the team
\* that came up from round 1: both losers are entered
C28_Witness ==
    /\ RallyBuilt
    /\ ~call.rrRandomize
    /\ Len(out.rrTeams) >= 2
    /\ \E k \in 1..Len(out.prev) :
          LET c == out.prev[k]
              p == IndexOfId(out.prev, c.nextId)
          IN /\ c.round = 1
             /\ Decisive(c.score)
             /\ p # 0
             /\ Decisive(out.prev[p].score)
             /\ LowerTeam(out.prev[p]) = WinnerNow(c)
             /\ \E i, j \in 1..Len(out.rrTeams) :
                   /\ out.rrTeams[i].name = LowerTeam(c).name
                   /\ out.rrTeams[j].name = WinnerNow(c).name

\* C29: a score entry on match M changes at most M's score and one team slot
\* of the match M's forward pointer names; M's teams, pointers and court and
\* every other match are unchanged; no match carries a loser-destination
\* pointer, so no loser is moved; a tied or unparseable score changes M's
\* score only.
C29_ScoreFrame ==
    [][ call'.op = "onScore" =>
          LET k == IndexOfId(brackets, call'.id)
              m == brackets[k]
              p == IndexOfId(brackets, m.nextId)
          IN /\ Len(brackets') = Len(brackets)
             /\ brackets'[k] = [m EXCEPT !.score = call'.score]
             /\ \A i \in 1..Len(brackets) :
                   /\ brackets[i].loserNextId = NoId
                   /\ brackets[i].loserNextSide = "none"
                   /\ (i # k /\ i # p => brackets'[i] = brackets[i])
             /\ (p # 0 =>
                   \/ brackets'[p] = brackets[p]
                   \/ m.nextSide = "team1"
                        /\ brackets'[p] = [brackets[p] EXCEPT !.team1 = brackets'[p].team1]
                   \/ m.nextSide = "team2"
                        /\ brackets'[p] = [brackets[p] EXCEPT !.team2 = brackets'[p].team2])
             /\ (p # 0 /\ ~Decisive(call'.score) => brackets'[p] = brackets[p]) ]_vars

\* a round-1 match scored 2-1 while another match holds a score: its team1
\* stands in the next match and it still holds both its teams
C29_Witness ==
    /\ call.op = "onScore"
    /\ call.score = <<"2", "-", "1">>
    /\ Cardinality(Scored(brackets)) >= 2
    /\ LET m == brackets[IndexOfId(brackets, call.id)]
       IN /\ m.round = 1
          /\ canScore(m)
          /\ m.nextId # NoId
          /\ SlotOf(brackets, IndexOfId(brackets, m.nextId), m.nextSide) = m.team1

\* the UPPER and LOWER matches of a bracket list, in order
MainMatches(list) == SelectSeq(list, LAMBDA m : m.division \in {"UPPER", "LOWER"})

\* C19 as stated: building the Redemption Rally leaves every UPPER and LOWER
\* match as it was before the build (teams, score, pointers, court); only RR
\* matches are removed or added.
C19_AsStated ==
    RallyBuilt => MainMatches(brackets) = MainMatches(out.prev)

\* what the build keeps: the same UPPER and LOWER matches in the same order,
\* each with its id, round, slot, court, score and pointers; only team slots
\* are rewritten
C19_OnlySlotsRewritten ==
    RallyBuilt =>
        /\ Len(MainMatches(brackets)) = Len(MainMatches(out.prev))
        /\ \A k \in 1..Len(MainMatches(brackets)) :
               [MainMatches(brackets)[k] EXCEPT !.team1 = NoTeam, !.team2 = NoTeam]
                 = [MainMatches(out.prev)[k] EXCEPT !.team1 = NoTeam, !.team2 = NoTeam]

(***************************************************************************)
(* The compact variant's PlayoffBuilder (build, buildBracket, onBuild)     *)
(***************************************************************************)
\* BracketMatch.court absent
NoCourt == 0

\* build of the compact variant: the windows are paired and each team keeps
\* seed j + 1, its position in the slice; there is no sort and no reseeding
build4(div, guysRows, girlsRows, gStart, gEnd, hStart, hEnd, seedRandom, groupSize, winSeeds) ==
    LET g == SliceJS(guysRows, gStart, gEnd)
        h == SliceJS(girlsRows, hStart, hEnd)
    IN BuildWindows(div, g, h, Min2(Len(g), Len(h)), Max2(2, groupSize), 0, 1,
                    seedRandom, winSeeds)

\* buildBracket of the compact variant: the first build's function, except
\* that no match is given a court
buildBracket4(division, teams, topSeedByeCount) ==
    Only({ [i \in 1..Len(b) |-> [b[i] EXCEPT !.court = NoCourt]] :
             b \in {buildBracket(division, teams, topSeedByeCount)} })

\* onBuild of the compact variant
OnBuild4(upperK, seedRandom, groupSize, byeUpper, byeLower) ==
    /\ brackets = <<>>
    /\ \E rows \in {computeStandings(matches, guys, girls)} :
       LET gN == Len(rows.guysRows)
           hN == Len(rows.girlsRows)
           draws == IF seedRandom THEN BuildSeeds ELSE {0}
       IN \E uSeeds \in [1..WindowCount(Min2(upperK, Min2(gN, hN)), groupSize) -> draws],
             lSeeds \in [1..WindowCount(Min2(gN, hN) - Min2(upperK, Min2(gN, hN)), groupSize)
                           -> draws] :
          \E upperTeams \in { build4("UPPER", rows.guysRows, rows.girlsRows, 0, upperK, 0,
                                     upperK, seedRandom, groupSize, uSeeds) },
             lowerTeams \in { build4("LOWER", rows.guysRows, rows.girlsRows, upperK, gN,
                                     upperK, hN, seedRandom, groupSize, lSeeds) } :
             /\ brackets' = buildBracket4("UPPER", upperTeams, byeUpper)
                              \o buildBracket4("LOWER", lowerTeams, byeLower)
             /\ call' = [op |-> "onBuild4", upperK |-> upperK, seedRandom |-> seedRandom,
                         byeUpper |-> byeUpper, byeLower |-> byeLower]
             /\ out' = [op |-> "onBuild4", upperTeams |-> upperTeams,
                        lowerTeams |-> lowerTeams]
             /\ UNCHANGED <<guys, girls, matches, tieAdjust>>

(***************************************************************************)
(* SpecSeeding: pool matches are scored, then the playoffs are built       *)
(***************************************************************************)
\* values of the "upper size" box with rosters of up to MaxRoster names
SeedingKs == {1, 2, 3}

\* the standings are read when the playoffs are built, so pool scores are
\* entered before the build
NextSeeding ==
    \/ \E k \in 1..Len(matches), text \in PoolScoreTexts :
          brackets = <<>> /\ Update(matches[k].id, text)
    \/ \E upperK \in SeedingKs, seedRandom \in BOOLEAN, byeUpper \in ByeChoices :
          OnBuild(upperK, seedRandom, 4, byeUpper, 0)
    \/ \E upperK \in SeedingKs, seedRandom \in BOOLEAN, byeUpper \in ByeChoices :
          OnBuild4(upperK, seedRandom, 4, byeUpper, 0)

SpecSeeding == InitStandings /\ [][NextSeeding]_vars

(***************************************************************************)
(* Claims about the playoff teams (checked under SpecSeeding)              *)
(***************************************************************************)
PlayoffsBuilt == call.op \in {"onBuild", "onBuild4"}

\* wins and point differential of player n in the standings of the pool
StandingOf(n) ==
    LET rows == computeStandings(matches, guys, girls)
        all == rows.guysRows \o rows.girlsRows
        at == { i \in 1..Len(all) : all[i].name = n }
    IN IF at = {} THEN [W |-> 0, PD |-> 0]
       ELSE LET r == all[CHOOSE i \in at : TRUE] IN [W |-> r.W, PD |-> r.PD]

CombinedW(t) == StandingOf(t.members[1]).W + StandingOf(t.members[2]).W

CombinedPD(t) == StandingOf(t.members[1]).PD + StandingOf(t.members[2]).PD

\* team x ranks no later than team y
SeededBefore(x, y) ==
    \/ CombinedW(x) > CombinedW(y)
    \/ CombinedW(x) = CombinedW(y) /\ CombinedPD(x) > CombinedPD(y)
    \/ /\ CombinedW(x) = CombinedW(y)
       /\ CombinedPD(x) = CombinedPD(y)
       /\ teamNameCompare(x, y) <= 0

\* the list carries seeds 1..N in order, ranked by the combined record
SeededByRecord(teams) ==
    /\ \A i \in 1..Len(teams) : teams[i].seed = i
    /\ \A i, j \in 1..Len(teams) : i < j => SeededBefore(teams[i], teams[j])

\* C12 as stated: the teams the Playoff Team Builder returns for a division
\* carry seeds exactly 1..N, and for seeds s < t team s has more combined
\* wins than team t, or equal wins and more combined point differential, or
\* equal both and a display name that is not greater.
C12_AsStated ==
    PlayoffsBuilt => SeededByRecord(out.upperTeams) /\ SeededByRecord(out.lowerTeams)

\* the same statement of the first build alone
C12_FirstBuild == call.op = "onBuild4" \/ C12_AsStated

\* the first build seeded three upper teams whose combined wins differ
C12_FirstBuildWitness ==
    /\ call.op = "onBuild"
    /\ Len(out.upperTeams) = 3
    /\ CombinedW(out.upperTeams[1]) > CombinedW(out.upperTeams[2])
    /\ CombinedW(out.upperTeams[2]) = CombinedW(out.upperTeams[3])
    /\ CombinedPD(out.upperTeams[2]) > CombinedPD(out.upperTeams[3])

====
